---- MODULE Spec2Model ----
(***************************************************************************)
(* Resumable multi-strategy reasoning search of minojosh/moremi_reasoning. *)
(*                                                                         *)
(* Part 1 (specification Spec): the worker pool driver                     *)
(* run_handwriting_ocr_reasoning with ProgressTracker and                  *)
(* IncrementalResultSaver of iam_utils.py, over several process runs with  *)
(* crashes and write failures.                                             *)
(* Part 2 (specification SpecSearch): one work item's strategy search,     *)
(* ReasoningStrategies.apply_all_strategies of core/reasoning_engine.py    *)
(* and the older process_sample loops.                                     *)
(* Part 3 (specification SpecOracle): check_answer_accuracy as a function  *)
(* of the oracle reply.                                                    *)
(***************************************************************************)
EXTENDS Integers, Sequences, FiniteSets, TLC

\* ------------------------------------------------------------------ bounds
NumItems == 2
MaxRuns == 2
MaxIOFaults == 1

Items == 1..NumItems

\* ------------------------------------------------------------ pool state
VARIABLES
    pc,             \* position of the driver process: start, constructed, pool, done, crashed
    run,            \* number of the current process run
    processed_ids,  \* ProgressTracker.processed_ids (in memory)
    future,         \* state of the future submitted for each item
    done_queue,     \* futures in the order as_completed yields them
    loop_item,      \* the item the driver loop body is working on (0: none)
    loop_pc,        \* position inside the loop body: idle, saved, marked
    results_file,   \* content of the result store file
    progress_file,  \* content of the progress file
    temp_file,      \* content of the .progress.tmp file
    committed,      \* processed_ids of the last save that reached the rename
    io_faults,      \* number of file operations that have failed so far
    unsaved,        \* items whose append_result logged "Error appending result" in this run
    all_results,    \* all_results read by the driver at the end of a run
    crashed_in      \* where the previous process was killed (none: it was not)

poolVars == <<pc, run, processed_ids, future, done_queue, loop_item, loop_pc,
              results_file, progress_file, temp_file, committed, io_faults, unsaved, all_results,
              crashed_in>>

\* ------------------------------------------------------------ oracle state
VARIABLES
    o_pc,               \* check_answer_accuracy: ready, returned, raised
    verification,       \* the reply of the verification call
    is_correct,         \* the value check_answer_accuracy returns
    o_query_history,    \* length of the query transcript passed in
    o_response_history  \* length of the response transcript passed in

oracleVars == <<o_pc, verification, is_correct, o_query_history, o_response_history>>

\* ------------------------------------------------------------ search state
VARIABLES
    s_pc,                  \* position of the per item function
    s_cfg,                 \* configuration and prompts the item is processed with
    search_attempts,       \* search_attempts of the search loop
    depth,                 \* depth of the inner for loop
    current_result,        \* version number of current_result
    strategies_used,       \* strategies_used
    reasoning_trace,       \* reasoning_trace (version numbers)
    found_correct_answer,  \* found_correct_answer
    calls,                 \* number of inference calls issued, by purpose
    last_pick,             \* the last strategy selection: attempt count and index
    oracle_said,           \* outcomes of the verifications so far
    refined,               \* outcomes of the refinement iterations so far
    s_status               \* status of the record the function returns

searchVars == <<s_pc, s_cfg, search_attempts, depth, current_result, strategies_used,
                reasoning_trace, found_correct_answer, calls, last_pick, oracle_said,
                refined, s_status>>

\* Concurrent callers of IncrementalResultSaver.append_result on one store.
VARIABLES
    a_pc,                  \* position of each caller inside append_result
    a_data,                \* data of each caller: the list it has loaded
    a_lock,                \* the caller that holds the flock on the store, or 0
    a_start,               \* the records of the store before the calls
    a_read                 \* what the last get_existing_results returned

appendVars == <<a_pc, a_data, a_lock, a_start, a_read>>

\* The recovery prompt at the start of run_handwriting_ocr_reasoning.
VARIABLES
    r_pc,                  \* position in the startup code
    r_resume,              \* the resume argument
    r_files,               \* last_updated of the progress files in results_dir
    r_runs,                \* incomplete_runs
    r_answer,              \* what input() gave
    r_results_file         \* results_file: 0 the new file, k that of run k

recoveryVars == <<r_pc, r_resume, r_files, r_runs, r_answer, r_results_file>>

\* One call of extract_final_conclusion, and a second one on the same input.
VARIABLES
    e_pc,                  \* position of the caller
    e_text,                \* text
    e_type,                \* content_type
    e_result,              \* what the last call returned
    e_first                \* what the first call returned

extractVars == <<e_pc, e_text, e_type, e_result, e_first>>

\* Threads that call mark_processed on one tracker at the same time.
VARIABLES
    m_pc,                  \* position of each thread inside mark_processed
    m_data,                \* progress_data['processed_ids'] of each thread
    m_fd                   \* where the file each thread has open is now

markVars == <<m_pc, m_data, m_fd>>

\* process_radiology_case: the transcripts of one case.
VARIABLES
    h_pc,                  \* position inside process_radiology_case
    h_ground_truth,        \* whether ground_truth_text is non-empty
    h_query_history,       \* query_history
    h_response_history,    \* response_history
    h_strategies_used,     \* strategies_used of apply_all_strategies
    h_reasoning_trace,     \* reasoning_trace of apply_all_strategies
    h_calls                \* inference calls made so far

historyVars == <<h_pc, h_ground_truth, h_query_history, h_response_history,
                 h_strategies_used, h_reasoning_trace, h_calls>>

\* process_sample of multimodal_simply.py run by the threads of the executor.
VARIABLES
    w_pc,                  \* position of each worker inside process_sample
    w_current_progress,    \* current_progress of each worker: the keys it holds
    w_progress_file        \* the progress file the workers share

workerVars == <<w_pc, w_current_progress, w_progress_file>>

\* run_radiopedia_report_reasoning over all modalities.
VARIABLES
    c_pc,                  \* position inside run_radiopedia_report_reasoning
    c_run,                 \* 1 for the first run, 2 for the resumed one
    c_files,               \* cases in each <modality>_only_cases.json, -1: no file
    c_limit,               \* limit, 0 for None
    c_next,                \* index of the modality to load next
    c_cases,               \* cases
    c_processed_ids,       \* processed_ids of the tracker
    c_finished,            \* the cases whose result was saved and marked
    c_remaining            \* remaining_cases

caseVars == <<c_pc, c_run, c_files, c_limit, c_next, c_cases, c_processed_ids,
              c_finished, c_remaining>>

vars == <<poolVars, oracleVars, searchVars, appendVars, recoveryVars, extractVars, markVars, historyVars, workerVars, caseVars>>

otherThanPool == <<oracleVars, searchVars, appendVars, recoveryVars, extractVars, markVars, historyVars, workerVars, caseVars>>
otherThanOracle == <<poolVars, searchVars, appendVars, recoveryVars, extractVars, markVars, historyVars, workerVars, caseVars>>
otherThanSearch == <<poolVars, oracleVars, appendVars, recoveryVars, extractVars, markVars, historyVars, workerVars, caseVars>>
otherThanAppend == <<oracleVars, searchVars, recoveryVars, extractVars, markVars, historyVars, workerVars, caseVars>>
otherThanRecovery == <<poolVars, oracleVars, searchVars, appendVars, extractVars, markVars, historyVars, workerVars, caseVars>>
otherThanExtract == <<poolVars, oracleVars, searchVars, appendVars, recoveryVars, markVars, historyVars, workerVars, caseVars>>
otherThanMark == <<oracleVars, searchVars, appendVars, recoveryVars, extractVars, historyVars, workerVars, caseVars>>
otherThanHistory == <<poolVars, oracleVars, searchVars, appendVars, recoveryVars, extractVars, markVars, workerVars, caseVars>>
otherThanWorkers == <<poolVars, oracleVars, searchVars, appendVars, recoveryVars, extractVars, markVars, historyVars, caseVars>>
otherThanCases == <<poolVars, oracleVars, searchVars, appendVars, recoveryVars, extractVars, markVars, historyVars, workerVars>>

\* ------------------------------------------------------------ file contents
\* A result store file: missing, a JSON list of records, or text json.load rejects.
MissingFile == [kind |-> "missing", recs |-> <<>>]
TornFile == [kind |-> "torn", recs |-> <<>>]
ListFile(recs) == [kind |-> "list", recs |-> recs]

\* A progress file: missing, a JSON document with processed_ids, or torn text.
NoProgress == [kind |-> "missing", ids |-> {}]
TornProgress == [kind |-> "torn", ids |-> {}]
ProgressDoc(ids) == [kind |-> "ok", ids |-> ids]

\* Progress files the program did not write itself.  "not_object": the text
\* parses to a list, a number or a string, which has no get.  "no_key": an
\* object without processed_ids.  "not_iterable": processed_ids is a number,
\* null or a list of unhashable values, set() raises TypeError.  "iterable":
\* processed_ids is a string or an object, set() collects its characters or
\* keys; ids holds them, 0 stands for one that is no item id.
ForeignProgress(kind, ids) == [kind |-> kind, ids |-> ids]

ProgressFiles ==
    {NoProgress, TornProgress}
    \cup {ProgressDoc(ids) : ids \in SUBSET Items}
    \cup {ForeignProgress(kind, {}) : kind \in {"not_object", "no_key", "not_iterable"}}
    \cup {ForeignProgress("iterable", ids) : ids \in (SUBSET (0..NumItems)) \ {{}}}

\* ------------------------------------------------- per item worker function
\* Where an exception is raised while one item is processed.
Faults == {"none", "initial_call", "strategy", "synthesis", "final_call", "handler"}

\* process_sample_ocr: the try block and its except clause.  A failing
\* refinement call is caught inside apply_strategy and a failing synthesis
\* inside synthesize_natural_reasoning; the initial and the final call are
\* not guarded, so their exception reaches the except clause of the function.
\* "handler": the except clause itself raises and the future raises.
SuccessRecord(i) == [id |-> i, status |-> "success", error |-> "none", traceback |-> FALSE]
ErrorRecord(i, e) == [id |-> i, status |-> "error", error |-> e, traceback |-> TRUE]
Raised(i, e) == [id |-> i, status |-> "raised", error |-> e, traceback |-> FALSE]
ErrorInFuture(i, e) == [id |-> i, status |-> "error_in_future", error |-> e, traceback |-> FALSE]

\* Variant without the try/except of the function: every exception escapes.
process_sample_ocr_unguarded(i, fault) ==
    IF fault \in {"none", "strategy", "synthesis"} THEN SuccessRecord(i) ELSE Raised(i, fault)

process_sample_ocr(i, fault) ==
    CASE fault = "none" -> SuccessRecord(i)
      [] fault = "strategy" -> SuccessRecord(i)
      [] fault = "synthesis" -> SuccessRecord(i)
      [] fault = "initial_call" -> ErrorRecord(i, fault)
      [] fault = "final_call" -> ErrorRecord(i, fault)
      [] OTHER -> Raised(i, fault)

\* ------------------------------------------------------- ProgressTracker
\* _load_progress: only progress_file is read; anything unreadable gives the empty set.
\* Variant that prefers a leftover temp file to the progress file.
load_progress_from_temp(pf) ==
    IF temp_file.kind = "missing"
    THEN (IF pf.kind = "ok" THEN pf.ids ELSE {})
    ELSE (IF temp_file.kind = "ok" THEN temp_file.ids ELSE {})

\* _load_progress: set(data.get('processed_ids', [])) inside try/except Exception.
load_progress(pf) ==
    CASE pf.kind = "ok" -> pf.ids
      [] pf.kind = "iterable" -> pf.ids
      [] OTHER -> {}

is_processed(i) == i \in processed_ids

\* _save_progress: write the temp file, then replace the progress file with it.
\* Every exception is logged and swallowed.  Outcome "killed": the process
\* dies while the temp file is being written.
SaveOutcomes == {"ok", "write_fails", "replace_fails"}

save_progress_temp(ids, outcome, tf) ==
    CASE outcome = "ok" -> NoProgress
      [] outcome \in {"write_fails", "killed"} -> TornProgress
      [] OTHER -> ProgressDoc(ids)

save_progress_file(ids, outcome, pf) ==
    IF outcome = "ok" THEN ProgressDoc(ids) ELSE pf

\* ------------------------------------------------- IncrementalResultSaver
\* append_result: read the list (a JSONDecodeError gives []), append, truncate
\* and write back.  Every exception is logged and swallowed.  Outcome
\* "killed": the process dies after f.truncate() and before the dump is complete.
AppendOutcomes == {"ok", "open_fails", "write_fails"}

append_result_data(rf) == IF rf.kind = "list" THEN rf.recs ELSE <<>>

\* Variant without the inner except json.JSONDecodeError: an unparsable
\* store makes the outer except swallow the error and leave the file alone.
append_result_no_recovery(rf, rec, outcome) ==
    CASE outcome = "open_fails" -> rf
      [] rf.kind = "missing" -> rf
      [] outcome \in {"write_fails", "killed"} -> TornFile
      [] rf.kind = "torn" -> rf
      [] OTHER -> ListFile(Append(rf.recs, rec))

append_result(rf, rec, outcome) ==
    CASE outcome = "open_fails" -> rf
      [] rf.kind = "missing" -> rf
      [] outcome \in {"write_fails", "killed"} -> TornFile
      [] OTHER -> ListFile(Append(append_result_data(rf), rec))

append_result_logs_error(rf, outcome) == outcome # "ok" \/ rf.kind = "missing"

get_existing_results(rf) == IF rf.kind = "list" THEN rf.recs ELSE <<>>

initialize_results_file(rf) == IF rf.kind = "missing" THEN ListFile(<<>>) ELSE rf

\* ------------------------------------------------- check_answer_accuracy
\* An oracle reply is a short sequence of words; " " is white space.
MaxReplyLen == 3
Words == {"True", "true", "False", "false", " ", "no"}
Replies == UNION {[1..n -> Words] : n \in 1..MaxReplyLen}

\* str.lower() on one word.
lower_word(w) ==
    CASE w = "True" -> "true"
      [] w = "False" -> "false"
      [] w = "Y" -> "y"
      [] OTHER -> w

lower(text) == [k \in DOMAIN text |-> lower_word(text[k])]

\* str.strip(): white space is dropped at both ends.
WhiteSpace == {" ", "\n\n"}

RECURSIVE lstrip(_)
lstrip(text) ==
    IF text # <<>> /\ Head(text) \in WhiteSpace THEN lstrip(Tail(text)) ELSE text

RECURSIVE rstrip(_)
rstrip(text) ==
    IF text # <<>> /\ text[Len(text)] \in WhiteSpace
    THEN rstrip(SubSeq(text, 1, Len(text) - 1))
    ELSE text

strip(text) == rstrip(lstrip(text))

\* 'word' in text
contains(text, word) == \E k \in DOMAIN text : text[k] = word

\* text.startswith(word)
startswith(text, word) == text # <<>> /\ text[1] = word

\* The classification at the end of check_answer_accuracy.
classify(reply) ==
    LET verification_lower == strip(lower(reply))
    IN IF contains(verification_lower, "true") /\ ~contains(verification_lower, "false")
       THEN TRUE
       ELSE IF startswith(verification_lower, "true") \/ verification_lower = <<"true">>
            THEN TRUE
            ELSE FALSE

OracleOff ==
    /\ o_pc = "off"
    /\ verification = <<>>
    /\ is_correct = FALSE
    /\ o_query_history = 0
    /\ o_response_history = 0

\* ------------------------------------------------------- strategy search
MaxAttempts == 2
MaxDepth == 2
MaxStrategies == 4

\* ReasoningStrategies._load_strategies: the fixed ordered list.
Strategies == <<"Backtracking", "Exploring New Paths", "Verification", "Correction">>

\* max_strategies=prompts.get('max_search_attempts', 3) of the drivers.
DefaultMaxStrategies == 3

Paths == {"engine", "simply", "qra"}

\* engine: process_salesforce_qa_pair with ReasoningStrategies.apply_all_strategies.
\* prompts_max_search_attempts = 0: the prompts file has no such key.
\* empty_prompts: the strategies whose prompt is missing from the prompts file.
EngineConfigs ==
    [path : {"engine"},
     max_search_attempts : 1..MaxAttempts,
     max_search_depth : 1..MaxDepth,
     prompts_max_search_attempts : 0..MaxStrategies,
     efficient_search : BOOLEAN,
     ground_truth : BOOLEAN,
     empty_prompts : SUBSET {1, 2},
     guided_prompt : BOOLEAN]

\* simply, qra: process_sample of multimodal_simply.py and multimodal_QRA_pair.py.
LegacyConfigs ==
    [path : {"simply", "qra"},
     max_search_attempts : 1..MaxAttempts,
     max_search_depth : 1..MaxDepth,
     prompts_max_search_attempts : {0},
     efficient_search : BOOLEAN,
     ground_truth : {TRUE},
     empty_prompts : {{}},
     guided_prompt : {TRUE}]

max_strategies ==
    IF s_cfg.prompts_max_search_attempts = 0
    THEN DefaultMaxStrategies
    ELSE s_cfg.prompts_max_search_attempts

\* Variant in which the loop never looks at the number of recorded entries.
cap_reached_never == FALSE

\* if len(strategies_used) >= max_strategies: break
cap_reached == Len(strategies_used) >= max_strategies

NoCalls == [initial |-> 0, refine |-> 0, verify |-> 0, guided |-> 0, synthesis |-> 0, final |-> 0]
NoPick == [attempt |-> 0, index |-> 0, picked |-> FALSE]

SearchOff ==
    /\ s_pc = "off"
    /\ s_cfg = [path |-> "engine", max_search_attempts |-> 1, max_search_depth |-> 1,
                prompts_max_search_attempts |-> 0, efficient_search |-> FALSE,
                ground_truth |-> FALSE, empty_prompts |-> {}, guided_prompt |-> FALSE]
    /\ search_attempts = 0
    /\ depth = 0
    /\ current_result = 0
    /\ strategies_used = <<>>
    /\ reasoning_trace = <<>>
    /\ found_correct_answer = FALSE
    /\ calls = NoCalls
    /\ last_pick = NoPick
    /\ oracle_said = {}
    /\ refined = {}
    /\ s_status = "none"

\* Variant that walks the list with the depth as well.
strategy_index_by_depth == (search_attempts + depth) % Len(Strategies)

\* strategy_index = search_attempts % len(self.strategies)
strategy_index == search_attempts % Len(Strategies)

\* Variant that tries the guided approach whatever efficient_search says.
guided_approach_always ==
    /\ ~found_correct_answer
    /\ s_cfg.ground_truth
    /\ s_cfg.guided_prompt

\* if not found_correct_answer and efficient_search and ground_truth and
\* self.gpt, and then: if guided_prompt and context_data.
guided_approach_runs ==
    /\ ~found_correct_answer
    /\ s_cfg.efficient_search
    /\ s_cfg.ground_truth
    /\ s_cfg.guided_prompt

\* What the verification call does: it returns one of these replies or raises.
VerifyOutcomes == {"True", "False", "raise"}

verdict(v) == v # "raise" /\ classify(<<v>>)

said(v) == IF v = "raise" THEN "raised" ELSE IF classify(<<v>>) THEN "correct" ELSE "incorrect"

\* ------------------------------------------- concurrent append_result calls
NumCallers == 2
Callers == 1..NumCallers

NoRead == [called |-> FALSE, recs |-> <<>>]

AppendOff ==
    /\ a_pc = [c \in Callers |-> "off"]
    /\ a_data = [c \in Callers |-> <<>>]
    /\ a_lock = 0
    /\ a_start = <<>>
    /\ a_read = NoRead

\* Variant in which fcntl.flock returns at once whoever holds the lock.
flock_granted_always(c) == TRUE

\* fcntl.flock(f.fileno(), fcntl.LOCK_EX) returns when no other open file
\* holds the lock.
flock_granted(c) == a_lock = 0

\* ------------------------------------------------------ recovery prompt
MaxFound == 2
MaxTime == 2
MaxAnswerLen == 2

\* What the operator types: a line made of these pieces, or nothing at all
\* because standard input is closed.
AnswerKeys == {"y", "Y", "n", " ", "es"}

Answers ==
    {[asked |-> TRUE, eof |-> FALSE, text |-> t] :
        t \in UNION {[1..n -> AnswerKeys] : n \in 0..MaxAnswerLen}}
    \cup {[asked |-> TRUE, eof |-> TRUE, text |-> <<>>]}

NotAsked == [asked |-> FALSE, eof |-> FALSE, text |-> <<>>]

RecoveryOff ==
    /\ r_pc = "off"
    /\ r_resume = FALSE
    /\ r_files = <<>>
    /\ r_runs = <<>>
    /\ r_answer = NotAsked
    /\ r_results_file = 0

\* RecoveryManager.find_incomplete_runs: one run_info per *.progress file.
find_incomplete_runs(files) ==
    [k \in DOMAIN files |-> [results_file |-> k, last_updated |-> files[k]]]

\* max(incomplete_runs, key=lambda x: x['last_updated']): the first run with
\* the largest last_updated.
latest_run(runs) ==
    runs[CHOOSE k \in DOMAIN runs :
            /\ \A j \in DOMAIN runs : runs[j].last_updated <= runs[k].last_updated
            /\ \A j \in 1..(k - 1) : runs[j].last_updated < runs[k].last_updated]

\* response = input(...).strip().lower(); response == 'y'
response_is_y(answer) == strip(lower(answer.text)) = <<"y">>

\* ----------------------------------------------- extract_final_conclusion
\* A text is made of at most MaxChunks of these pieces.  The operators below
\* work on its characters as far as the patterns of the function tell them
\* apart: a star, a blank, a paragraph break, and four runs of letters.  None
\* of the delimiter phrases, quotes and meta-commentary words of the function
\* other than those named below occurs in such a text.
MaxChunks == 5
Chunks == {"**", "Final Conclusion", "Verification", " ", "\n\n",
           "The sign reads STOP", "STOP"}
Texts == UNION {[1..n -> Chunks] : n \in 0..MaxChunks}
ContentTypes == {"general", "ocr", "medical"}

RECURSIVE flatten(_)
flatten(chunks) ==
    IF chunks = <<>>
    THEN <<>>
    ELSE (IF Head(chunks) = "**" THEN <<"*", "*">> ELSE <<Head(chunks)>>)
         \o flatten(Tail(chunks))

\* len() of one piece and of a text.
piece_len(a) ==
    CASE a = "*" -> 1
      [] a = " " -> 1
      [] a = "\n\n" -> 2
      [] a = "STOP" -> 4
      [] a = "Verification" -> 12
      [] a = "Final Conclusion" -> 16
      [] a = "The sign reads STOP" -> 19

RECURSIVE text_len(_)
text_len(text) == IF text = <<>> THEN 0 ELSE piece_len(Head(text)) + text_len(Tail(text))

\* The pieces that begin with a capital letter: re.match(r'^[A-Z]', line).
Capitals == {"Final Conclusion", "Verification", "The sign reads STOP", "STOP"}

\* pattern occurs in text at position k.
starts_at(text, k, pattern) ==
    /\ k >= 1
    /\ k + Len(pattern) - 1 <= Len(text)
    /\ SubSeq(text, k, k + Len(pattern) - 1) = pattern

first_index(text, pattern) ==
    CHOOSE k \in 1..Len(text) :
        /\ starts_at(text, k, pattern)
        /\ \A j \in 1..(k - 1) : ~starts_at(text, j, pattern)

\* [^*]+ from position k on: the last position of the run without a star.
RECURSIVE run_end(_, _)
run_end(text, k) ==
    IF k < Len(text) /\ text[k + 1] # "*" THEN run_end(text, k + 1) ELSE k

\* re.sub of n stars, [^*]+, n stars by the group: left to right, without overlap.
RECURSIVE unwrap(_, _)
unwrap(text, n) ==
    IF text = <<>>
    THEN <<>>
    ELSE LET opens == /\ Len(text) >= n + 1
                      /\ \A q \in 1..n : text[q] = "*"
                      /\ text[n + 1] # "*"
             m == run_end(text, n + 1)
             closes == /\ opens
                       /\ m + n <= Len(text)
                       /\ \A q \in 1..n : text[m + q] = "*"
         IN IF closes
            THEN SubSeq(text, n + 1, m) \o unwrap(SubSeq(text, m + n + 1, Len(text)), n)
            ELSE <<Head(text)>> \o unwrap(Tail(text), n)

\* result = re.sub(r'\*\*([^*]+)\*\*', r'\1', result), then the same with one star.
clean_up_formatting(result) == unwrap(unwrap(result, 2), 1)

FinalConclusionHeader == <<"*", "*", "Final Conclusion", "*", "*">>
VerificationHeader == <<"*", "*", "Verification", "*", "*">>

\* Variant that never takes the structured branch.
has_final_conclusion_never(text) == FALSE

\* "**Final Conclusion**" in text
has_final_conclusion(text) ==
    \E k \in 1..Len(text) : starts_at(text, k, FinalConclusionHeader)

\* \s* after the header.
RECURSIVE skip_space(_, _)
skip_space(text, k) ==
    IF k <= Len(text) /\ text[k] \in WhiteSpace THEN skip_space(text, k + 1) ELSE k

\* Where the lazy group (.*?) of conclusion_patterns[which] has to stop: the
\* first pattern at **Verification** with or without a paragraph break before
\* it, the second at a paragraph break followed by ** or at a ** that is not
\* followed by Final; both at the end of the text.
terminator(text, j, which) ==
    IF which = 1
    THEN \/ starts_at(text, j, VerificationHeader)
         \/ starts_at(text, j, <<"\n\n">> \o VerificationHeader)
    ELSE \/ starts_at(text, j, <<"\n\n", "*", "*">>)
         \/ /\ starts_at(text, j, <<"*", "*">>)
            /\ ~(j + 2 <= Len(text) /\ text[j + 2] = "Final Conclusion")

RECURSIVE capture_end(_, _, _)
capture_end(text, j, which) ==
    IF j > Len(text) \/ terminator(text, j, which)
    THEN j
    ELSE capture_end(text, j + 1, which)

\* re.search(conclusion_patterns[which], text).group(1).strip()
conclusion_match(text, which) ==
    LET k == skip_space(text, first_index(text, FinalConclusionHeader)
                                 + Len(FinalConclusionHeader))
    IN strip(SubSeq(text, k, capture_end(text, k, which) - 1))

\* text.split('\n\n')
RECURSIVE split_paragraphs(_)
split_paragraphs(text) ==
    IF ~\E k \in DOMAIN text : text[k] = "\n\n"
    THEN <<text>>
    ELSE LET k == first_index(text, <<"\n\n">>)
         IN <<SubSeq(text, 1, k - 1)>> \o split_paragraphs(SubSeq(text, k + 1, Len(text)))

\* The line loop of the ocr branch: the first line that starts with a capital
\* letter and has more than 10 characters starts the block, the empty line
\* after it ends it.
potential_transcription(text) ==
    LET lines == split_paragraphs(text)
        starts == {k \in DOMAIN lines :
                     /\ strip(lines[k]) # <<>>
                     /\ Head(strip(lines[k])) \in Capitals
                     /\ text_len(strip(lines[k])) > 10}
    IN IF starts = {}
       THEN <<>>
       ELSE strip(lines[CHOOSE k \in starts : \A j \in starts : k <= j])

\* max(paragraphs, key=len): the first of the longest ones.
longest(paragraphs) ==
    paragraphs[CHOOSE k \in DOMAIN paragraphs :
                  /\ \A j \in DOMAIN paragraphs :
                        text_len(paragraphs[j]) <= text_len(paragraphs[k])
                  /\ \A j \in 1..(k - 1) :
                        text_len(paragraphs[j]) < text_len(paragraphs[k])]

\* The paragraph extraction at the end of the function.
smart_paragraph(text) ==
    LET parts == split_paragraphs(text)
        paragraphs == SelectSeq([k \in DOMAIN parts |-> strip(parts[k])],
                                LAMBDA q : q # <<>>)
        content_paragraphs == SelectSeq(paragraphs, LAMBDA q : ~contains(q, "Verification"))
    IN IF content_paragraphs # <<>>
       THEN longest(content_paragraphs)
       ELSE paragraphs[Len(paragraphs)]

extract_final_conclusion(chunks, content_type) ==
    LET text == strip(flatten(chunks))
        first == clean_up_formatting(conclusion_match(text, 1))
        second == clean_up_formatting(conclusion_match(text, 2))
        block == potential_transcription(text)
    IN CASE text = <<>> -> <<>>
         [] text # <<>> /\ has_final_conclusion(text) /\ text_len(first) > 10 -> first
         [] text # <<>> /\ has_final_conclusion(text) /\ text_len(first) <= 10
                /\ text_len(second) > 10 -> second
         [] OTHER ->
                IF content_type = "ocr" /\ text_len(block) > 20
                THEN block
                ELSE smart_paragraph(text)

ExtractOff ==
    /\ e_pc = "off"
    /\ e_text = <<>>
    /\ e_type = "general"
    /\ e_result = <<>>
    /\ e_first = <<>>

\* ------------------------------------------- concurrent mark_processed
MarkOff ==
    /\ m_pc = [c \in Callers |-> "off"]
    /\ m_data = [c \in Callers |-> {}]
    /\ m_fd = [c \in Callers |-> "none"]

\* The bytes of a dump, written from offset 0 into a file another thread has
\* written since it was truncated: a document at least as long as the one in
\* the file replaces it, a shorter one leaves the tail of the longer one
\* behind it, which does not parse.  The IDs have one length, so the length
\* of a document grows with the number of its IDs.
overwrite(file, ids) ==
    IF file.kind \in {"ok", "garbled"} /\ Cardinality(file.ids) > Cardinality(ids)
    THEN ForeignProgress("garbled", file.ids)
    ELSE ProgressDoc(ids)

\* ------------------------------------------------ process_radiology_case
MaxHistoryCalls == 4

\* An entry of a transcript: what it is and the call it belongs to.
Entry(kind, n) == [kind |-> kind, n |-> n]

HistoryOff ==
    /\ h_pc = "off"
    /\ h_ground_truth = FALSE
    /\ h_query_history = <<>>
    /\ h_response_history = <<>>
    /\ h_strategies_used = <<>>
    /\ h_reasoning_trace = <<>>
    /\ h_calls = 0

\* ------------------------------------ workers that persist themselves
WorkersOff ==
    /\ w_pc = [w \in Callers |-> "off"]
    /\ w_current_progress = [w \in Callers |-> {}]
    /\ w_progress_file = NoProgress

\* ------------------------------------------- radiopedia cases and IDs
MaxCases == 1
MaxMarked == 2

available_modalities == <<"mammography", "x-ray", "ct", "mri", "ultrasound">>

Modalities == {available_modalities[k] : k \in DOMAIN available_modalities}

CasesOff ==
    /\ c_pc = "off"
    /\ c_run = 0
    /\ c_files = [mod \in Modalities |-> -1]
    /\ c_limit = 0
    /\ c_next = 0
    /\ c_cases = <<>>
    /\ c_processed_ids = {}
    /\ c_finished = {}
    /\ c_remaining = <<>>

\* load_modality_cases: the cases of the file, cut to limit when limit is
\* given, each with process_id = its index in this list.
load_modality_cases(modality, count, limit) ==
    LET n == IF limit # 0 /\ limit < count THEN limit ELSE count
    IN [idx \in 1..n |-> [modality |-> modality, case |-> idx, process_id |-> idx - 1]]

\* ---------------------------------------------------------------- futures
NoFuture(i) == [state |-> "none", fault |-> "none",
                result |-> [id |-> i, status |-> "none", error |-> "none", traceback |-> FALSE]]

Head_item == Head(done_queue)

\* ------------------------------------------------------------------- Init
Init ==
    /\ pc = "start"
    /\ run = 1
    /\ processed_ids = {}
    /\ future = [i \in Items |-> NoFuture(i)]
    /\ done_queue = <<>>
    /\ loop_item = 0
    /\ loop_pc = "idle"
    /\ results_file = MissingFile
    /\ progress_file = NoProgress
    /\ temp_file = NoProgress
    /\ committed = {}
    /\ io_faults = 0
    /\ unsaved = {}
    /\ all_results = <<>>
    /\ crashed_in = "none"
    /\ OracleOff
    /\ SearchOff
    /\ AppendOff
    /\ RecoveryOff
    /\ ExtractOff
    /\ MarkOff
    /\ HistoryOff
    /\ WorkersOff
    /\ CasesOff

\* ---------------------------------------------------------------- actions
\* ProgressTracker(...) and IncrementalResultSaver(...) are constructed.
Construct ==
    /\ pc = "start"
    /\ processed_ids' = load_progress(progress_file)
    /\ results_file' = initialize_results_file(results_file)
    /\ pc' = "constructed"
    /\ UNCHANGED <<run, future, done_queue, loop_item, loop_pc, progress_file,
                   temp_file, committed, io_faults, unsaved, all_results, crashed_in>>
    /\ UNCHANGED otherThanPool

\* Variant that submits every sample, processed or not.
Dispatch_everything ==
    /\ pc = "constructed"
    /\ pc' = "pool"
    /\ future' = [i \in Items |-> [NoFuture(i) EXCEPT !.state = "running"]]
    /\ UNCHANGED <<run, processed_ids, done_queue, loop_item, loop_pc, results_file,
                   progress_file, temp_file, committed, io_faults, unsaved, all_results, crashed_in>>
    /\ UNCHANGED otherThanPool

\* The samples not yet processed are filtered and submitted to the executor;
\* with nothing left the run returns at once.
Dispatch ==
    /\ pc = "constructed"
    /\ LET remaining == {i \in Items : ~is_processed(i)}
       IN IF remaining = {}
          THEN /\ pc' = "done"
               /\ UNCHANGED future
          ELSE /\ pc' = "pool"
               /\ future' = [i \in Items |->
                                IF i \in remaining
                                THEN [NoFuture(i) EXCEPT !.state = "running"]
                                ELSE NoFuture(i)]
    /\ UNCHANGED <<run, processed_ids, done_queue, loop_item, loop_pc, results_file,
                   progress_file, temp_file, committed, io_faults, unsaved, all_results, crashed_in>>
    /\ UNCHANGED otherThanPool

\* A worker thread finishes process_sample_ocr for item i.
WorkerFinish(i, fault) ==
    /\ pc = "pool"
    /\ future[i].state = "running"
    /\ future' = [future EXCEPT ![i] = [state |-> "finished", fault |-> fault,
                                        result |-> process_sample_ocr(i, fault)]]
    /\ done_queue' = Append(done_queue, i)
    /\ UNCHANGED <<pc, run, processed_ids, loop_item, loop_pc, results_file,
                   progress_file, temp_file, committed, io_faults, unsaved, all_results, crashed_in>>
    /\ UNCHANGED otherThanPool

\* mark_processed(i): add to the set and _save_progress.
mark_processed(i, outcome) ==
    /\ processed_ids' = processed_ids \cup {i}
    /\ temp_file' = save_progress_temp(processed_ids \cup {i}, outcome, temp_file)
    /\ progress_file' = save_progress_file(processed_ids \cup {i}, outcome, progress_file)
    /\ committed' = IF outcome = "ok" THEN processed_ids \cup {i} ELSE committed
    /\ outcome # "ok" => io_faults < MaxIOFaults
    /\ io_faults' = IF outcome = "ok" THEN io_faults ELSE io_faults + 1

\* Loop body, try branch, first half: future.result() returns and the result
\* is appended to the store.
SaveResult(outcome) ==
    /\ pc = "pool"
    /\ loop_pc = "idle"
    /\ done_queue # <<>>
    /\ future[Head_item].result.status # "raised"
    /\ outcome # "ok" => io_faults < MaxIOFaults
    /\ io_faults' = IF outcome = "ok" THEN io_faults ELSE io_faults + 1
    /\ results_file' = append_result(results_file, future[Head_item].result, outcome)
    /\ unsaved' = IF append_result_logs_error(results_file, outcome)
                  THEN unsaved \cup {Head_item} ELSE unsaved
    /\ loop_item' = Head_item
    /\ loop_pc' = "saved"
    /\ done_queue' = Tail(done_queue)
    /\ UNCHANGED <<pc, run, processed_ids, future, progress_file, temp_file,
                   committed, all_results, crashed_in>>
    /\ UNCHANGED otherThanPool

\* Loop body, try branch, second half: the item is marked processed.
MarkProcessed(outcome) ==
    /\ pc = "pool"
    /\ loop_pc = "saved"
    /\ mark_processed(loop_item, outcome)
    /\ future' = [future EXCEPT ![loop_item].state = "consumed"]
    /\ loop_item' = 0
    /\ loop_pc' = "idle"
    /\ UNCHANGED <<pc, run, done_queue, results_file, unsaved, all_results, crashed_in>>
    /\ UNCHANGED otherThanPool

\* Loop body, except branch, first half: future.result() raises and the item
\* is marked processed.
ExceptMark(outcome) ==
    /\ pc = "pool"
    /\ loop_pc = "idle"
    /\ done_queue # <<>>
    /\ future[Head_item].result.status = "raised"
    /\ mark_processed(Head_item, outcome)
    /\ loop_item' = Head_item
    /\ loop_pc' = "marked"
    /\ done_queue' = Tail(done_queue)
    /\ UNCHANGED <<pc, run, future, results_file, unsaved, all_results, crashed_in>>
    /\ UNCHANGED otherThanPool

\* Variant of the except branch that marks the item but records nothing.
ExceptSave_no_record(outcome) ==
    /\ pc = "pool"
    /\ loop_pc = "marked"
    /\ outcome = "ok"
    /\ future' = [future EXCEPT ![loop_item].state = "consumed"]
    /\ loop_item' = 0
    /\ loop_pc' = "idle"
    /\ UNCHANGED <<pc, run, processed_ids, done_queue, results_file, progress_file,
                   temp_file, committed, io_faults, unsaved, all_results, crashed_in>>
    /\ UNCHANGED otherThanPool

\* Loop body, except branch, second half: the error_in_future record is appended.
ExceptSave(outcome) ==
    /\ pc = "pool"
    /\ loop_pc = "marked"
    /\ outcome # "ok" => io_faults < MaxIOFaults
    /\ io_faults' = IF outcome = "ok" THEN io_faults ELSE io_faults + 1
    /\ results_file' = append_result(results_file,
                            ErrorInFuture(loop_item, future[loop_item].result.error),
                            outcome)
    /\ unsaved' = IF append_result_logs_error(results_file, outcome)
                  THEN unsaved \cup {loop_item} ELSE unsaved
    /\ future' = [future EXCEPT ![loop_item].state = "consumed"]
    /\ loop_item' = 0
    /\ loop_pc' = "idle"
    /\ UNCHANGED <<pc, run, processed_ids, done_queue, progress_file, temp_file,
                   committed, all_results, crashed_in>>
    /\ UNCHANGED otherThanPool

\* The executor has drained: final statistics are read from the store.
FinalStats ==
    /\ pc = "pool"
    /\ loop_pc = "idle"
    /\ \A i \in Items : future[i].state \in {"none", "consumed"}
    /\ all_results' = get_existing_results(results_file)
    /\ pc' = "done"
    /\ UNCHANGED <<run, processed_ids, future, done_queue, loop_item, loop_pc,
                   results_file, progress_file, temp_file, committed, io_faults, unsaved,
                   crashed_in>>
    /\ UNCHANGED otherThanPool

\* The process is killed, or the operator's interrupt is raised in the main
\* thread as KeyboardInterrupt, which no except Exception of the driver or of
\* append_result and _save_progress catches: the loop is left where it
\* stands and the with block of the open file closes it as it is.
\* "plain": between two file operations.
\* "in_append": inside append_result after f.truncate(), before the dump is
\* complete.  "in_save": inside _save_progress while the temp file is being
\* written, before the replace.
CrashKinds == {"plain", "in_append", "in_save"}

append_is_next ==
    \/ loop_pc = "marked"
    \/ loop_pc = "idle" /\ done_queue # <<>> /\ future[Head_item].result.status # "raised"

save_is_next ==
    \/ loop_pc = "saved"
    \/ loop_pc = "idle" /\ done_queue # <<>> /\ future[Head_item].result.status = "raised"

Crash(kind) ==
    /\ pc \in {"constructed", "pool"}
    /\ kind = "in_append" => pc = "pool" /\ append_is_next /\ results_file.kind # "missing"
    /\ kind = "in_save" => pc = "pool" /\ save_is_next
    /\ results_file' = IF kind = "in_append"
                       THEN append_result(results_file, NoFuture(0).result, "killed")
                       ELSE results_file
    /\ temp_file' = IF kind = "in_save"
                    THEN save_progress_temp(processed_ids, "killed", temp_file)
                    ELSE temp_file
    /\ progress_file' = IF kind = "in_save"
                        THEN save_progress_file(processed_ids, "killed", progress_file)
                        ELSE progress_file
    /\ pc' = "crashed"
    /\ crashed_in' = kind
    /\ UNCHANGED <<run, processed_ids, future, done_queue, loop_item, loop_pc,
                   committed, io_faults, unsaved, all_results>>
    /\ UNCHANGED otherThanPool

\* The operator starts the pipeline again on the same result file: nothing
\* of the old process survives but the files.
Restart ==
    /\ pc \in {"done", "crashed"}
    /\ run < MaxRuns
    /\ run' = run + 1
    /\ pc' = "start"
    /\ processed_ids' = {}
    /\ future' = [i \in Items |-> NoFuture(i)]
    /\ done_queue' = <<>>
    /\ loop_item' = 0
    /\ loop_pc' = "idle"
    /\ unsaved' = {}
    /\ all_results' = <<>>
    /\ crashed_in' = IF pc = "crashed" THEN crashed_in ELSE "none"
    /\ UNCHANGED <<results_file, progress_file, temp_file, committed, io_faults>>
    /\ UNCHANGED otherThanPool

Next ==
    \/ Construct
    \/ Dispatch
    \/ \E i \in Items, fault \in Faults : WorkerFinish(i, fault)
    \/ \E outcome \in AppendOutcomes : SaveResult(outcome)
    \/ \E outcome \in SaveOutcomes : MarkProcessed(outcome)
    \/ \E outcome \in SaveOutcomes : ExceptMark(outcome)
    \/ \E outcome \in AppendOutcomes : ExceptSave(outcome)
    \/ FinalStats
    \/ \E kind \in CrashKinds : Crash(kind)
    \/ Restart

Spec == Init /\ [][Next]_vars

\* Runs in which the process is not killed and no file operation fails.  The
\* worker threads of the executor run to completion and the as_completed loop
\* handles every finished future, so every step of a run is weakly fair.
LiveStep ==
    \/ Construct
    \/ Dispatch
    \/ \E i \in Items, fault \in Faults : WorkerFinish(i, fault)
    \/ SaveResult("ok")
    \/ MarkProcessed("ok")
    \/ ExceptMark("ok")
    \/ ExceptSave("ok")
    \/ FinalStats

LiveNext ==
    \/ LiveStep
    \/ Restart

LiveSpec == Init /\ [][LiveNext]_vars /\ WF_vars(LiveStep)

\* ======================================================= Part 3: the oracle
PoolOff ==
    /\ pc = "off"
    /\ run = 0
    /\ processed_ids = {}
    /\ future = [i \in Items |-> NoFuture(i)]
    /\ done_queue = <<>>
    /\ loop_item = 0
    /\ loop_pc = "idle"
    /\ results_file = MissingFile
    /\ progress_file = NoProgress
    /\ temp_file = NoProgress
    /\ committed = {}
    /\ io_faults = 0
    /\ unsaved = {}
    /\ all_results = <<>>
    /\ crashed_in = "none"

MaxTranscript == 2

\* check_answer_accuracy is about to be called with transcripts of any length.
OracleInit ==
    /\ PoolOff
    /\ SearchOff
    /\ AppendOff
    /\ RecoveryOff
    /\ ExtractOff
    /\ o_pc = "ready"
    /\ verification = <<>>
    /\ is_correct = FALSE
    /\ o_query_history \in 0..MaxTranscript
    /\ o_response_history = o_query_history
    /\ MarkOff
    /\ HistoryOff
    /\ WorkersOff
    /\ CasesOff

\* check_answer_accuracy runs: the query is appended, the verification call
\* returns reply, the reply is appended and classified.
CheckAnswerReturns(reply) ==
    /\ o_pc = "ready"
    /\ o_query_history' = o_query_history + 1
    /\ verification' = reply
    /\ o_response_history' = o_response_history + 1
    /\ is_correct' = classify(reply)
    /\ o_pc' = "returned"
    /\ UNCHANGED otherThanOracle

\* check_answer_accuracy runs and gpt_instance.text_only_call raises: the
\* query was appended, nothing else happens, the exception leaves the function.
CheckAnswerRaises ==
    /\ o_pc = "ready"
    /\ o_query_history' = o_query_history + 1
    /\ o_pc' = "raised"
    /\ UNCHANGED <<verification, is_correct, o_response_history>>
    /\ UNCHANGED otherThanOracle

\* The caller goes on to its next verification with the same transcripts.
CheckAnswerAgain ==
    /\ o_pc \in {"returned", "raised"}
    /\ o_query_history < MaxTranscript
    /\ o_pc' = "ready"
    /\ verification' = <<>>
    /\ is_correct' = FALSE
    /\ UNCHANGED <<o_query_history, o_response_history>>
    /\ UNCHANGED otherThanOracle

OracleNext ==
    \/ \E reply \in Replies : CheckAnswerReturns(reply)
    \/ CheckAnswerRaises
    \/ CheckAnswerAgain

SpecOracle == OracleInit /\ [][OracleNext]_vars

\* ============================================ Part 2: the strategy search
SearchInit ==
    /\ PoolOff
    /\ OracleOff
    /\ AppendOff
    /\ RecoveryOff
    /\ ExtractOff
    /\ s_pc = "initial_call"
    /\ s_cfg \in EngineConfigs \cup LegacyConfigs
    /\ search_attempts = 0
    /\ depth = 0
    /\ current_result = 0
    /\ strategies_used = <<>>
    /\ reasoning_trace = <<>>
    /\ found_correct_answer = FALSE
    /\ calls = NoCalls
    /\ last_pick = NoPick
    /\ oracle_said = {}
    /\ refined = {}
    /\ s_status = "none"
    /\ MarkOff
    /\ HistoryOff
    /\ WorkersOff
    /\ CasesOff

\* Variant in which neither the break nor the while condition looks at the
\* verdict.
Advance_ignores_verdict(found, broke) ==
    IF depth + 1 < s_cfg.max_search_depth
    THEN /\ depth' = depth + 1
         /\ UNCHANGED search_attempts
         /\ s_pc' = "loop"
    ELSE /\ depth' = 0
         /\ search_attempts' = search_attempts + 1
         /\ s_pc' = IF search_attempts + 1 >= s_cfg.max_search_attempts
                    THEN "guided" ELSE "loop"

\* The position after one pass of the inner for loop body: the next depth,
\* or search_attempts += 1 and the while condition, or the end of the loop.
Advance(found, broke) ==
    IF ~broke /\ depth + 1 < s_cfg.max_search_depth
    THEN /\ depth' = depth + 1
         /\ UNCHANGED search_attempts
         /\ s_pc' = "loop"
    ELSE /\ depth' = 0
         /\ search_attempts' = search_attempts + 1
         /\ s_pc' = IF found \/ search_attempts + 1 >= s_cfg.max_search_attempts
                    THEN "guided" ELSE "loop"

\* process_salesforce_qa_pair: the initial model call.
InitialCall(raises) ==
    /\ s_pc = "initial_call"
    /\ s_cfg.path = "engine"
    /\ calls' = [calls EXCEPT !.initial = @ + 1]
    /\ IF raises
       THEN s_pc' = "returned" /\ s_status' = "error" /\ UNCHANGED current_result
       ELSE s_pc' = "initial_check" /\ current_result' = 1 /\ UNCHANGED s_status
    /\ UNCHANGED <<s_cfg, search_attempts, depth, strategies_used, reasoning_trace,
                   found_correct_answer, last_pick, oracle_said, refined>>
    /\ UNCHANGED otherThanSearch

\* apply_all_strategies, first part: the initial result is verified when a
\* ground truth is given; a correct one returns early.
InitialCheck(v) ==
    /\ s_pc = "initial_check"
    /\ ~s_cfg.ground_truth => v = "False"
    /\ LET found == s_cfg.ground_truth /\ verdict(v)
       IN /\ found_correct_answer' = found
          /\ IF found
             THEN /\ strategies_used' = <<[kind |-> "initial_correct", attempt |-> 0,
                                           depth |-> 0, strategy |-> "none"]>>
                  /\ reasoning_trace' = <<current_result>>
                  /\ s_pc' = "synthesis"
             ELSE /\ s_pc' = "loop"
                  /\ UNCHANGED <<strategies_used, reasoning_trace>>
    /\ IF s_cfg.ground_truth
       THEN /\ calls' = [calls EXCEPT !.verify = @ + 1]
            /\ oracle_said' = oracle_said \cup {said(v)}
       ELSE UNCHANGED <<calls, oracle_said>>
    /\ UNCHANGED <<s_cfg, search_attempts, depth, current_result, last_pick, refined,
                   s_status>>
    /\ UNCHANGED otherThanSearch

\* Inner loop body: strategies_used has reached max_strategies, break.
StrategyCap ==
    /\ s_pc = "loop"
    /\ s_cfg.path = "engine"
    /\ cap_reached
    /\ Advance(found_correct_answer, TRUE)
    /\ UNCHANGED <<s_cfg, current_result, strategies_used, reasoning_trace,
                   found_correct_answer, calls, last_pick, oracle_said, refined, s_status>>
    /\ UNCHANGED otherThanSearch

\* Inner loop body: the selected strategy has no prompt, continue.
EmptyPrompt ==
    /\ s_pc = "loop"
    /\ s_cfg.path = "engine"
    /\ ~cap_reached
    /\ strategy_index + 1 \in s_cfg.empty_prompts
    /\ last_pick' = [attempt |-> search_attempts, index |-> strategy_index, picked |-> TRUE]
    /\ refined' = refined \cup {"empty_prompt"}
    /\ Advance(found_correct_answer, FALSE)
    /\ UNCHANGED <<s_cfg, current_result, strategies_used, reasoning_trace,
                   found_correct_answer, calls, oracle_said, s_status>>
    /\ UNCHANGED otherThanSearch

\* Variant that verifies every changed result, with or without a ground truth.
verification_runs_always(outcome) == outcome = "changed"

\* A changed result is verified: if ground_truth and self.gpt.
verification_runs(outcome) == outcome = "changed" /\ s_cfg.ground_truth

\* What apply_strategy does: its call returns a conclusion that differs from
\* current_result or equals it, the call raises (caught inside apply_strategy,
\* current_result is returned), or formatting the prompt raises (caught by
\* apply_all_strategies).
RefineOutcomes == {"changed", "same", "call_fails", "format_fails"}

\* Inner loop body: the selected strategy is applied, and a changed result is
\* recorded and verified.
ApplyStrategy(outcome, v) ==
    /\ s_pc = "loop"
    /\ s_cfg.path = "engine"
    /\ ~cap_reached
    /\ strategy_index + 1 \notin s_cfg.empty_prompts
    /\ (outcome # "changed" \/ ~s_cfg.ground_truth) => v = "False"
    /\ last_pick' = [attempt |-> search_attempts, index |-> strategy_index, picked |-> TRUE]
    /\ refined' = refined \cup {outcome}
    /\ LET verified == verification_runs(outcome)
           found == IF verified THEN verdict(v) ELSE found_correct_answer
       IN /\ found_correct_answer' = found
          /\ calls' = [calls EXCEPT
                          !.refine = IF outcome = "format_fails" THEN @ ELSE @ + 1,
                          !.verify = IF verified THEN @ + 1 ELSE @]
          /\ oracle_said' = IF verified THEN oracle_said \cup {said(v)} ELSE oracle_said
          /\ Advance(found, verified /\ found)
    /\ CASE outcome = "changed" ->
               /\ current_result' = current_result + 1
               /\ strategies_used' = Append(strategies_used,
                     [kind |-> "attempt", attempt |-> search_attempts + 1,
                      depth |-> depth + 1, strategy |-> Strategies[strategy_index + 1]])
               /\ reasoning_trace' = Append(reasoning_trace, current_result + 1)
         [] outcome = "format_fails" ->
               /\ strategies_used' = Append(strategies_used,
                     [kind |-> "failed", attempt |-> 0, depth |-> 0,
                      strategy |-> Strategies[strategy_index + 1]])
               /\ UNCHANGED <<current_result, reasoning_trace>>
         [] OTHER -> UNCHANGED <<current_result, strategies_used, reasoning_trace>>
    /\ UNCHANGED <<s_cfg, s_status>>
    /\ UNCHANGED otherThanSearch

\* apply_all_strategies, last part: the guided approach.  One call is issued
\* when the answer is still not correct, efficient_search is on and a ground
\* truth and a guided prompt are there; its result counts as correct.
GuidedFallback(raises) ==
    /\ s_pc = "guided"
    /\ s_cfg.path = "engine"
    /\ LET guided == guided_approach_runs
       IN /\ ~guided => ~raises
          /\ calls' = [calls EXCEPT !.guided = IF guided THEN @ + 1 ELSE @]
          /\ IF guided /\ ~raises
             THEN /\ current_result' = current_result + 1
                  /\ strategies_used' = Append(strategies_used,
                        [kind |-> "guided", attempt |-> 0, depth |-> 0, strategy |-> "none"])
                  /\ reasoning_trace' = Append(reasoning_trace, current_result + 1)
                  /\ found_correct_answer' = TRUE
             ELSE UNCHANGED <<current_result, strategies_used, reasoning_trace,
                              found_correct_answer>>
    /\ s_pc' = "synthesis"
    /\ UNCHANGED <<s_cfg, search_attempts, depth, last_pick, oracle_said, refined, s_status>>
    /\ UNCHANGED otherThanSearch

\* synthesize_natural_reasoning: one call, its exception is caught inside.
Synthesis(raises) ==
    /\ s_pc = "synthesis"
    /\ s_cfg.path = "engine"
    /\ calls' = [calls EXCEPT !.synthesis = @ + 1]
    /\ s_pc' = "final_call"
    /\ UNCHANGED <<s_cfg, search_attempts, depth, current_result, strategies_used,
                   reasoning_trace, found_correct_answer, last_pick, oracle_said, refined,
                   s_status>>
    /\ UNCHANGED otherThanSearch

\* The final response call and the record the function returns.
FinalCall(raises) ==
    /\ s_pc = "final_call"
    /\ s_cfg.path = "engine"
    /\ calls' = [calls EXCEPT !.final = @ + 1]
    /\ s_status' = IF raises THEN "error" ELSE "success"
    /\ s_pc' = "returned"
    /\ UNCHANGED <<s_cfg, search_attempts, depth, current_result, strategies_used,
                   reasoning_trace, found_correct_answer, last_pick, oracle_said, refined>>
    /\ UNCHANGED otherThanSearch

\* check_answer_accuracy of multimodal_simply.py and multimodal_QRA_pair.py.
legacy_classify(reply) == contains(lower(reply), "true")

legacy_verdict(v) == v # "raise" /\ legacy_classify(<<v>>)

\* process_sample of the older scripts: the initial retry_call and its
\* verification.  Any exception ends the function with return 0.
LegacyInitial(raises, v) ==
    /\ s_pc = "initial_call"
    /\ s_cfg.path \in {"simply", "qra"}
    /\ raises => v = "False"
    /\ calls' = [calls EXCEPT !.initial = @ + 1,
                              !.verify = IF raises THEN @ ELSE @ + 1]
    /\ oracle_said' = IF raises THEN oracle_said ELSE oracle_said \cup {said(v)}
    /\ IF raises \/ v = "raise"
       THEN /\ s_pc' = "returned"
            /\ s_status' = "failed"
            /\ UNCHANGED <<current_result, reasoning_trace, strategies_used,
                           found_correct_answer>>
       ELSE /\ current_result' = 1
            /\ reasoning_trace' = <<1>>
            /\ strategies_used' = <<[kind |-> "initial", attempt |-> 0, depth |-> 0,
                                     strategy |-> "none"]>>
            /\ found_correct_answer' = legacy_verdict(v)
            /\ s_pc' = IF legacy_verdict(v) THEN "synthesis" ELSE "loop"
            /\ UNCHANGED s_status
    /\ UNCHANGED <<s_cfg, search_attempts, depth, last_pick, refined>>
    /\ UNCHANGED otherThanSearch

\* process_sample of the older scripts, loop body: a strategy is drawn with
\* random.choice, the call is made and its answer verified.
LegacyRefine(index, raises, v) ==
    /\ s_pc = "loop"
    /\ s_cfg.path \in {"simply", "qra"}
    /\ raises => v = "False"
    /\ last_pick' = [attempt |-> search_attempts, index |-> index, picked |-> TRUE]
    /\ calls' = [calls EXCEPT !.refine = @ + 1,
                              !.verify = IF raises THEN @ ELSE @ + 1]
    /\ oracle_said' = IF raises THEN oracle_said ELSE oracle_said \cup {said(v)}
    /\ refined' = refined \cup {IF raises THEN "call_fails" ELSE "changed"}
    /\ IF raises \/ v = "raise"
       THEN /\ s_pc' = "returned"
            /\ s_status' = "failed"
            /\ UNCHANGED <<current_result, reasoning_trace, strategies_used,
                           found_correct_answer, search_attempts, depth>>
       ELSE /\ current_result' = current_result + 1
            /\ reasoning_trace' = Append(reasoning_trace, current_result + 1)
            /\ strategies_used' = Append(strategies_used,
                  [kind |-> "attempt", attempt |-> search_attempts + 1,
                   depth |-> IF s_cfg.path = "simply" THEN depth + 1 ELSE 0,
                   strategy |-> Strategies[index + 1]])
            /\ found_correct_answer' = legacy_verdict(v)
            /\ IF s_cfg.path = "simply"
               THEN Advance(legacy_verdict(v), legacy_verdict(v))
               ELSE /\ search_attempts' = search_attempts + 1
                    /\ s_pc' = IF legacy_verdict(v)
                                  \/ search_attempts + 1 >= s_cfg.max_search_attempts
                               THEN "guided" ELSE "loop"
                    /\ UNCHANGED depth
            /\ UNCHANGED s_status
    /\ UNCHANGED s_cfg
    /\ UNCHANGED otherThanSearch

\* process_sample of the older scripts: the guided prompt.  multimodal_simply
\* takes its answer as correct, multimodal_QRA_pair verifies it.
LegacyGuided(raises, v) ==
    /\ s_pc = "guided"
    /\ s_cfg.path \in {"simply", "qra"}
    /\ LET guided == ~found_correct_answer /\ s_cfg.efficient_search
           verified == guided /\ ~raises /\ s_cfg.path = "qra"
       IN /\ ~guided => ~raises
          /\ ~verified => v = "False"
          /\ calls' = [calls EXCEPT !.guided = IF guided THEN @ + 1 ELSE @,
                                    !.verify = IF verified THEN @ + 1 ELSE @]
          /\ oracle_said' = IF verified THEN oracle_said \cup {said(v)} ELSE oracle_said
          /\ IF raises \/ (verified /\ v = "raise")
             THEN /\ s_pc' = "returned"
                  /\ s_status' = "failed"
                  /\ UNCHANGED <<current_result, reasoning_trace, strategies_used,
                                 found_correct_answer>>
             ELSE /\ s_pc' = "synthesis"
                  /\ UNCHANGED s_status
                  /\ IF guided
                     THEN /\ current_result' = current_result + 1
                          /\ reasoning_trace' = Append(reasoning_trace, current_result + 1)
                          /\ strategies_used' = Append(strategies_used,
                                [kind |-> "guided", attempt |-> 0, depth |-> 0,
                                 strategy |-> "none"])
                          /\ found_correct_answer' =
                                IF s_cfg.path = "simply" THEN TRUE ELSE legacy_verdict(v)
                     ELSE UNCHANGED <<current_result, reasoning_trace, strategies_used,
                                      found_correct_answer>>
    /\ UNCHANGED <<s_cfg, search_attempts, depth, last_pick, refined>>
    /\ UNCHANGED otherThanSearch

\* process_sample of the older scripts: the natural reasoning call and the
\* final response call; an exception of either ends the function with return 0.
LegacyFinish(synthesis_raises, final_raises) ==
    /\ s_pc = "synthesis"
    /\ s_cfg.path \in {"simply", "qra"}
    /\ synthesis_raises => ~final_raises
    /\ calls' = [calls EXCEPT !.synthesis = @ + 1,
                              !.final = IF synthesis_raises THEN @ ELSE @ + 1]
    /\ s_status' = IF synthesis_raises \/ final_raises THEN "failed" ELSE "success"
    /\ s_pc' = "returned"
    /\ UNCHANGED <<s_cfg, search_attempts, depth, current_result, strategies_used,
                   reasoning_trace, found_correct_answer, last_pick, oracle_said, refined>>
    /\ UNCHANGED otherThanSearch

SearchNext ==
    \/ \E raises \in BOOLEAN : InitialCall(raises)
    \/ \E v \in VerifyOutcomes : InitialCheck(v)
    \/ StrategyCap
    \/ EmptyPrompt
    \/ \E outcome \in RefineOutcomes, v \in VerifyOutcomes : ApplyStrategy(outcome, v)
    \/ \E raises \in BOOLEAN : GuidedFallback(raises)
    \/ \E raises \in BOOLEAN : Synthesis(raises)
    \/ \E raises \in BOOLEAN : FinalCall(raises)
    \/ \E raises \in BOOLEAN, v \in VerifyOutcomes : LegacyInitial(raises, v)
    \/ \E index \in 0..(Len(Strategies) - 1), raises \in BOOLEAN, v \in VerifyOutcomes :
          LegacyRefine(index, raises, v)
    \/ \E raises \in BOOLEAN, v \in VerifyOutcomes : LegacyGuided(raises, v)
    \/ \E synthesis_raises, final_raises \in BOOLEAN :
          LegacyFinish(synthesis_raises, final_raises)

SpecSearch == SearchInit /\ [][SearchNext]_vars

\* One thread runs the search of an item and every call it makes returns or
\* raises, so the next step of the search is always taken.
LiveSpecSearch == SearchInit /\ [][SearchNext]_vars /\ WF_vars(SearchNext)

\* ============================================ Part 4: the progress tracker
\* A ProgressTracker is about to be constructed on a progress file of any content.
TrackerInit ==
    /\ pc = "tracker_start"
    /\ run = 1
    /\ processed_ids = {}
    /\ future = [i \in Items |-> NoFuture(i)]
    /\ done_queue = <<>>
    /\ loop_item = 0
    /\ loop_pc = "idle"
    /\ results_file = MissingFile
    /\ progress_file \in ProgressFiles
    /\ temp_file = NoProgress
    /\ committed = (IF progress_file.kind = "ok" THEN progress_file.ids ELSE {})
    /\ io_faults = 0
    /\ unsaved = {}
    /\ all_results = <<>>
    /\ crashed_in = "none"
    /\ OracleOff
    /\ SearchOff
    /\ AppendOff
    /\ RecoveryOff
    /\ ExtractOff
    /\ MarkOff
    /\ HistoryOff
    /\ WorkersOff
    /\ CasesOff

\* ProgressTracker.__init__: the set starts empty and _load_progress runs.
TrackerNew ==
    /\ pc = "tracker_start"
    /\ processed_ids' = load_progress(progress_file)
    /\ pc' = "tracker_loaded"
    /\ UNCHANGED <<run, future, done_queue, loop_item, loop_pc, results_file, progress_file,
                   temp_file, committed, io_faults, unsaved, all_results, crashed_in>>
    /\ UNCHANGED otherThanPool

\* mark_processed(i) on the constructed tracker.
TrackerMark(i, outcome) ==
    /\ pc \in {"tracker_loaded", "tracker_marked"}
    /\ mark_processed(i, outcome)
    /\ pc' = "tracker_marked"
    /\ UNCHANGED <<run, future, done_queue, loop_item, loop_pc, results_file, unsaved,
                   all_results, crashed_in>>
    /\ UNCHANGED otherThanPool

\* The process ends and a later one constructs a tracker on the same files.
TrackerRestart ==
    /\ pc \in {"tracker_loaded", "tracker_marked"}
    /\ run < MaxRuns
    /\ run' = run + 1
    /\ processed_ids' = {}
    /\ pc' = "tracker_start"
    /\ UNCHANGED <<future, done_queue, loop_item, loop_pc, results_file, progress_file,
                   temp_file, committed, io_faults, unsaved, all_results, crashed_in>>
    /\ UNCHANGED otherThanPool

TrackerNext ==
    \/ TrackerNew
    \/ \E i \in Items, outcome \in SaveOutcomes : TrackerMark(i, outcome)
    \/ TrackerRestart

SpecTracker == TrackerInit /\ [][TrackerNext]_vars

\* ===================================== Part 5: concurrent append_result
\* A store file the constructor found or initialized, and callers that are
\* each about to append their own record.
StoreInit ==
    /\ pc = "appending"
    /\ run = 1
    /\ processed_ids = {}
    /\ future = [i \in Items |-> NoFuture(i)]
    /\ done_queue = <<>>
    /\ loop_item = 0
    /\ loop_pc = "idle"
    /\ results_file \in {ListFile(<<>>), ListFile(<<SuccessRecord(0)>>), TornFile}
    /\ progress_file = NoProgress
    /\ temp_file = NoProgress
    /\ committed = {}
    /\ io_faults = 0
    /\ unsaved = {}
    /\ all_results = <<>>
    /\ crashed_in = "none"
    /\ OracleOff
    /\ SearchOff
    /\ a_pc = [c \in Callers |-> "called"]
    /\ a_data = [c \in Callers |-> <<>>]
    /\ a_lock = 0
    /\ a_start = append_result_data(results_file)
    /\ a_read = NoRead
    /\ RecoveryOff
    /\ ExtractOff
    /\ MarkOff
    /\ HistoryOff
    /\ WorkersOff
    /\ CasesOff

storeFrame == <<pc, run, processed_ids, future, done_queue, loop_item, loop_pc,
                progress_file, temp_file, committed, all_results, crashed_in>>

\* with open(self.results_file, 'r+') as f.  When the open fails the
\* exception is logged by the outer except and the call returns.
AppendOpen(c, outcome) ==
    /\ a_pc[c] = "called"
    /\ outcome \in {"ok", "open_fails"}
    /\ outcome # "ok" => io_faults < MaxIOFaults
    /\ io_faults' = IF outcome = "ok" THEN io_faults ELSE io_faults + 1
    /\ unsaved' = IF outcome = "ok" THEN unsaved ELSE unsaved \cup {c}
    /\ a_pc' = [a_pc EXCEPT ![c] = IF outcome = "ok" THEN "opened" ELSE "returned"]
    /\ UNCHANGED <<a_data, a_lock, a_start, results_file>>
    /\ UNCHANGED <<storeFrame, otherThanAppend, a_read>>

\* fcntl.flock(f.fileno(), fcntl.LOCK_EX)
AppendLock(c) ==
    /\ a_pc[c] = "opened"
    /\ flock_granted(c)
    /\ a_lock' = c
    /\ a_pc' = [a_pc EXCEPT ![c] = "locked"]
    /\ UNCHANGED <<a_data, a_start, results_file, io_faults, unsaved>>
    /\ UNCHANGED <<storeFrame, otherThanAppend, a_read>>

\* f.seek(0); data = json.load(f), [] on JSONDecodeError; data.append(result)
AppendLoad(c) ==
    /\ a_pc[c] = "locked"
    /\ a_data' = [a_data EXCEPT ![c] = Append(append_result_data(results_file),
                                              SuccessRecord(c))]
    /\ a_pc' = [a_pc EXCEPT ![c] = "loaded"]
    /\ UNCHANGED <<a_lock, a_start, results_file, io_faults, unsaved>>
    /\ UNCHANGED <<storeFrame, otherThanAppend, a_read>>

\* f.seek(0); f.truncate(): the file is empty, which json.load rejects.
AppendTruncate(c) ==
    /\ a_pc[c] = "loaded"
    /\ results_file' = TornFile
    /\ a_pc' = [a_pc EXCEPT ![c] = "truncated"]
    /\ UNCHANGED <<a_data, a_lock, a_start, io_faults, unsaved>>
    /\ UNCHANGED <<storeFrame, otherThanAppend, a_read>>

\* json.dump(data, f, indent=2) and the end of the with block: the file is
\* flushed and closed, which releases the lock of this open file.  When the
\* write fails the exception is logged by the outer except and not raised.
AppendDump(c, outcome) ==
    /\ a_pc[c] = "truncated"
    /\ outcome \in {"ok", "write_fails"}
    /\ outcome # "ok" => io_faults < MaxIOFaults
    /\ io_faults' = IF outcome = "ok" THEN io_faults ELSE io_faults + 1
    /\ results_file' = IF outcome = "ok" THEN ListFile(a_data[c]) ELSE results_file
    /\ unsaved' = IF outcome = "ok" THEN unsaved ELSE unsaved \cup {c}
    /\ a_lock' = IF a_lock = c THEN 0 ELSE a_lock
    /\ a_pc' = [a_pc EXCEPT ![c] = "returned"]
    /\ UNCHANGED <<a_data, a_start>>
    /\ UNCHANGED <<storeFrame, otherThanAppend, a_read>>

\* get_existing_results, called by a reader while the callers of
\* append_result run: the file is opened and parsed, without flock; a file
\* that does not parse gives [].
GetExistingResults ==
    /\ pc = "appending"
    /\ a_read' = [called |-> TRUE, recs |-> get_existing_results(results_file)]
    /\ UNCHANGED <<a_pc, a_data, a_lock, a_start, results_file, io_faults, unsaved>>
    /\ UNCHANGED <<storeFrame, otherThanAppend>>

StoreNext ==
    \/ \E c \in Callers :
        \/ \E outcome \in AppendOutcomes : AppendOpen(c, outcome)
        \/ AppendLock(c)
        \/ AppendLoad(c)
        \/ AppendTruncate(c)
        \/ \E outcome \in AppendOutcomes : AppendDump(c, outcome)
    \/ GetExistingResults

SpecStore == StoreInit /\ [][StoreNext]_vars

\* ========================================== Part 6: the recovery prompt
\* run_handwriting_ocr_reasoning has built its new, time-stamped results_file
\* name; results_dir holds the progress files of earlier runs.
RecoveryInit ==
    /\ PoolOff
    /\ OracleOff
    /\ SearchOff
    /\ AppendOff
    /\ ExtractOff
    /\ r_pc = "start"
    /\ r_resume \in BOOLEAN
    /\ r_files \in UNION {[1..n -> 1..MaxTime] : n \in 0..MaxFound}
    /\ r_runs = <<>>
    /\ r_answer = NotAsked
    /\ r_results_file = 0
    /\ MarkOff
    /\ HistoryOff
    /\ WorkersOff
    /\ CasesOff

\* if resume: incomplete_runs = recovery_manager.find_incomplete_runs(); with
\* runs found the options are printed and the question is asked.
FindIncompleteRuns ==
    /\ r_pc = "start"
    /\ IF r_resume
       THEN /\ r_runs' = find_incomplete_runs(r_files)
            /\ r_pc' = IF find_incomplete_runs(r_files) # <<>> THEN "prompt" ELSE "tracking"
       ELSE /\ r_pc' = "tracking"
            /\ UNCHANGED r_runs
    /\ UNCHANGED <<r_resume, r_files, r_answer, r_results_file>>
    /\ UNCHANGED otherThanRecovery

\* input(...) returns a line, or raises EOFError, which the except Exception
\* at the end of the function reports: the pipeline ends there.  With 'y' the
\* results_file of the latest run is taken.
AnswerPrompt(answer) ==
    /\ r_pc = "prompt"
    /\ r_answer' = answer
    /\ IF answer.eof
       THEN /\ r_pc' = "aborted"
            /\ UNCHANGED r_results_file
       ELSE /\ r_pc' = "tracking"
            /\ r_results_file' = IF response_is_y(answer) /\ r_runs # <<>>
                                  THEN latest_run(r_runs).results_file
                                  ELSE 0
    /\ UNCHANGED <<r_resume, r_files, r_runs>>
    /\ UNCHANGED otherThanRecovery

RecoveryNext ==
    \/ FindIncompleteRuns
    \/ \E answer \in Answers : AnswerPrompt(answer)

SpecRecovery == RecoveryInit /\ [][RecoveryNext]_vars

\* ==================================== Part 7: extract_final_conclusion
ExtractInit ==
    /\ PoolOff
    /\ OracleOff
    /\ SearchOff
    /\ AppendOff
    /\ RecoveryOff
    /\ e_pc = "ready"
    /\ e_text \in Texts
    /\ e_type \in ContentTypes
    /\ e_result = <<>>
    /\ e_first = <<>>
    /\ MarkOff
    /\ HistoryOff
    /\ WorkersOff
    /\ CasesOff

\* extract_final_conclusion(text, content_type) is called.
ExtractCall ==
    /\ e_pc = "ready"
    /\ e_result' = extract_final_conclusion(e_text, e_type)
    /\ e_first' = extract_final_conclusion(e_text, e_type)
    /\ e_pc' = "returned"
    /\ UNCHANGED <<e_text, e_type>>
    /\ UNCHANGED otherThanExtract

\* It is called once more with the same arguments.
ExtractAgain ==
    /\ e_pc = "returned"
    /\ e_result' = extract_final_conclusion(e_text, e_type)
    /\ e_pc' = "returned_again"
    /\ UNCHANGED <<e_text, e_type, e_first>>
    /\ UNCHANGED otherThanExtract

ExtractNext ==
    \/ ExtractCall
    \/ ExtractAgain

SpecExtract == ExtractInit /\ [][ExtractNext]_vars

\* ================================== Part 8: concurrent mark_processed
\* One tracker, constructed on a progress file of an earlier run or on none,
\* and threads that each call mark_processed with their own ID.
MarkInit ==
    /\ pc = "marking"
    /\ run = 1
    /\ processed_ids \in {{}, {0}}
    /\ progress_file = IF processed_ids = {} THEN NoProgress ELSE ProgressDoc(processed_ids)
    /\ temp_file = NoProgress
    /\ future = [i \in Items |-> NoFuture(i)]
    /\ done_queue = <<>>
    /\ loop_item = 0
    /\ loop_pc = "idle"
    /\ results_file = MissingFile
    /\ committed = {}
    /\ io_faults = 0
    /\ unsaved = {}
    /\ all_results = <<>>
    /\ crashed_in = "none"
    /\ OracleOff
    /\ SearchOff
    /\ AppendOff
    /\ RecoveryOff
    /\ ExtractOff
    /\ m_pc = [c \in Callers |-> "called"]
    /\ m_data = [c \in Callers |-> {}]
    /\ m_fd = [c \in Callers |-> "none"]
    /\ HistoryOff
    /\ WorkersOff
    /\ CasesOff

markFrame == <<pc, run, future, done_queue, loop_item, loop_pc, results_file, committed,
               io_faults, unsaved, all_results, crashed_in>>

\* self.processed_ids.add(image_id)
MarkAdd(c) ==
    /\ m_pc[c] = "called"
    /\ processed_ids' = processed_ids \cup {c}
    /\ m_pc' = [m_pc EXCEPT ![c] = "added"]
    /\ UNCHANGED <<m_data, m_fd, progress_file, temp_file>>
    /\ UNCHANGED <<markFrame, otherThanMark>>

\* _save_progress: progress_data = {'processed_ids': list(self.processed_ids), ...}
MarkSnapshot(c) ==
    /\ m_pc[c] = "added"
    /\ m_data' = [m_data EXCEPT ![c] = processed_ids]
    /\ m_pc' = [m_pc EXCEPT ![c] = "snapshot"]
    /\ UNCHANGED <<m_fd, processed_ids, progress_file, temp_file>>
    /\ UNCHANGED <<markFrame, otherThanMark>>

\* with open(temp_file, 'w') as f: the file at the path .progress.tmp, which
\* every thread uses, is created or truncated.
MarkOpenTemp(c) ==
    /\ m_pc[c] = "snapshot"
    /\ temp_file' = TornProgress
    /\ m_fd' = [m_fd EXCEPT ![c] = "temp"]
    /\ m_pc' = [m_pc EXCEPT ![c] = "opened"]
    /\ UNCHANGED <<m_data, processed_ids, progress_file>>
    /\ UNCHANGED <<markFrame, otherThanMark>>

\* json.dump(progress_data, f, indent=2) and the end of the with block: the
\* document goes into the file this thread has opened, wherever a replace of
\* another thread has moved it since.
MarkDump(c) ==
    /\ m_pc[c] = "opened"
    /\ temp_file' = IF m_fd[c] = "temp" THEN overwrite(temp_file, m_data[c]) ELSE temp_file
    /\ progress_file' = IF m_fd[c] = "progress"
                         THEN overwrite(progress_file, m_data[c])
                         ELSE progress_file
    /\ m_fd' = [m_fd EXCEPT ![c] = "none"]
    /\ m_pc' = [m_pc EXCEPT ![c] = "written"]
    /\ UNCHANGED <<m_data, processed_ids>>
    /\ UNCHANGED <<markFrame, otherThanMark>>

\* temp_file.replace(self.progress_file): the file at .progress.tmp becomes
\* the progress file, also for the threads that have it open; the former
\* progress file is unlinked.  When another thread has already moved the
\* file away, replace raises FileNotFoundError, which is logged and swallowed.
MarkReplace(c) ==
    /\ m_pc[c] = "written"
    /\ IF temp_file.kind = "missing"
       THEN UNCHANGED <<progress_file, temp_file, m_fd>>
       ELSE /\ progress_file' = temp_file
            /\ temp_file' = NoProgress
            /\ m_fd' = [d \in Callers |->
                            CASE m_fd[d] = "temp" -> "progress"
                              [] m_fd[d] = "progress" -> "unlinked"
                              [] OTHER -> m_fd[d]]
    /\ m_pc' = [m_pc EXCEPT ![c] = "returned"]
    /\ UNCHANGED <<m_data, processed_ids>>
    /\ UNCHANGED <<markFrame, otherThanMark>>

MarkNext ==
    \E c \in Callers :
        \/ MarkAdd(c)
        \/ MarkSnapshot(c)
        \/ MarkOpenTemp(c)
        \/ MarkDump(c)
        \/ MarkReplace(c)

SpecMark == MarkInit /\ [][MarkNext]_vars

\* ================================== Part 9: process_radiology_case
RadioInit ==
    /\ PoolOff
    /\ OracleOff
    /\ SearchOff
    /\ AppendOff
    /\ RecoveryOff
    /\ ExtractOff
    /\ MarkOff
    /\ h_pc = "initial_call"
    /\ h_ground_truth \in BOOLEAN
    /\ h_query_history = <<>>
    /\ h_response_history = <<>>
    /\ h_strategies_used = <<>>
    /\ h_reasoning_trace = <<>>
    /\ h_calls = 0
    /\ WorkersOff
    /\ CasesOff

\* check_answer_accuracy on the lists of context_data, which are the lists
\* of process_radiology_case themselves: the prompt is appended, and the
\* reply when the call returns.
with_verification(history, n) == Append(history, Entry("verify", n))

\* The question and the prompt are appended, the initial call is made and
\* its reply appended.  An exception ends the case with an error record.
RadioInitialCall(raises) ==
    /\ h_pc = "initial_call"
    /\ h_query_history' = <<Entry("question", 0), Entry("prompt", 1)>>
    /\ h_calls' = 1
    /\ IF raises
       THEN h_pc' = "error" /\ UNCHANGED h_response_history
       ELSE h_pc' = "initial_check" /\ h_response_history' = <<Entry("reply", 1)>>
    /\ UNCHANGED <<h_ground_truth, h_strategies_used, h_reasoning_trace>>
    /\ UNCHANGED otherThanHistory

\* apply_all_strategies, first part: the initial check; a correct initial
\* response returns with reasoning_trace = [current_result].
RadioInitialCheck(v) ==
    /\ h_pc = "initial_check"
    /\ ~h_ground_truth => v = "False"
    /\ IF h_ground_truth
       THEN /\ h_calls' = h_calls + 1
            /\ h_query_history' = with_verification(h_query_history, h_calls + 1)
            /\ h_response_history' = IF v = "raise" THEN h_response_history
                                      ELSE with_verification(h_response_history, h_calls + 1)
       ELSE UNCHANGED <<h_calls, h_query_history, h_response_history>>
    /\ IF h_ground_truth /\ verdict(v)
       THEN /\ h_strategies_used' = <<Entry("initial_correct", 0)>>
            /\ h_reasoning_trace' = <<Entry("reply", 1)>>
            /\ h_pc' = "merge"
       ELSE /\ h_pc' = "loop"
            /\ UNCHANGED <<h_strategies_used, h_reasoning_trace>>
    /\ UNCHANGED h_ground_truth
    /\ UNCHANGED otherThanHistory

\* apply_all_strategies, one pass of the loop: the refinement call, and for
\* a changed result the record and the verification.
RadioRefine(outcome, v) ==
    /\ h_pc = "loop"
    /\ h_calls + 2 <= MaxHistoryCalls
    /\ outcome \in {"changed", "same"}
    /\ (outcome # "changed" \/ ~h_ground_truth) => v = "False"
    /\ LET verified == outcome = "changed" /\ h_ground_truth
       IN /\ h_calls' = IF verified THEN h_calls + 2 ELSE h_calls + 1
          /\ h_query_history' = IF verified
                                 THEN with_verification(h_query_history, h_calls + 2)
                                 ELSE h_query_history
          /\ h_response_history' = IF verified /\ v # "raise"
                                    THEN with_verification(h_response_history, h_calls + 2)
                                    ELSE h_response_history
          /\ h_pc' = IF verified /\ verdict(v) THEN "merge" ELSE "loop"
    /\ IF outcome = "changed"
       THEN /\ h_strategies_used' = Append(h_strategies_used, Entry("attempt", h_calls + 1))
            /\ h_reasoning_trace' = Append(h_reasoning_trace, Entry("reply", h_calls + 1))
       ELSE UNCHANGED <<h_strategies_used, h_reasoning_trace>>
    /\ UNCHANGED h_ground_truth
    /\ UNCHANGED otherThanHistory

\* apply_all_strategies, last part: the loop has ended without a correct
\* answer; the guided approach may add its reply, and the lists are returned.
RadioEndSearch(guided) ==
    /\ h_pc = "loop"
    /\ guided => h_ground_truth
    /\ IF guided
       THEN /\ h_calls' = h_calls + 1
            /\ h_strategies_used' = Append(h_strategies_used, Entry("guided", h_calls + 1))
            /\ h_reasoning_trace' = Append(h_reasoning_trace, Entry("reply", h_calls + 1))
       ELSE UNCHANGED <<h_calls, h_strategies_used, h_reasoning_trace>>
    /\ h_pc' = "merge"
    /\ UNCHANGED <<h_ground_truth, h_query_history, h_response_history>>
    /\ UNCHANGED otherThanHistory

\* The four extend calls after apply_all_strategies.  strategy_result's
\* query_history and response_history are the very lists they are added to.
RadioMerge ==
    /\ h_pc = "merge"
    /\ LET applied == [k \in DOMAIN h_strategies_used |->
                          Entry("applied", h_strategies_used[k].n)]
           queries == h_query_history \o applied
           responses == h_response_history \o h_reasoning_trace
       IN /\ h_query_history' = queries \o queries
          /\ h_response_history' = responses \o responses
    /\ h_pc' = "final"
    /\ UNCHANGED <<h_ground_truth, h_strategies_used, h_reasoning_trace, h_calls>>
    /\ UNCHANGED otherThanHistory

\* The synthesis call reads response_history; the final report query and its
\* reply are appended.  The validation call touches neither list.
RadioFinal(raises) ==
    /\ h_pc = "final"
    /\ h_calls' = h_calls + 2
    /\ IF raises
       THEN /\ h_pc' = "error"
            /\ h_query_history' = Append(h_query_history, Entry("final", h_calls + 2))
            /\ UNCHANGED h_response_history
       ELSE /\ h_pc' = "returned"
            /\ h_query_history' = Append(h_query_history, Entry("final", h_calls + 2))
            /\ h_response_history' = Append(h_response_history, Entry("reply", h_calls + 2))
    /\ UNCHANGED <<h_ground_truth, h_strategies_used, h_reasoning_trace>>
    /\ UNCHANGED otherThanHistory

RadioNext ==
    \/ \E raises \in BOOLEAN : RadioInitialCall(raises)
    \/ \E v \in VerifyOutcomes : RadioInitialCheck(v)
    \/ \E outcome \in RefineOutcomes, v \in VerifyOutcomes : RadioRefine(outcome, v)
    \/ \E guided \in BOOLEAN : RadioEndSearch(guided)
    \/ RadioMerge
    \/ \E raises \in BOOLEAN : RadioFinal(raises)

SpecRadio == RadioInit /\ [][RadioNext]_vars

\* ===================== Part 10: workers that update the progress file
\* The progress file exists, empty or with the entry of an earlier run, and
\* executor.map has handed one item to each worker thread.
WorkersInit ==
    /\ PoolOff
    /\ OracleOff
    /\ SearchOff
    /\ AppendOff
    /\ RecoveryOff
    /\ ExtractOff
    /\ MarkOff
    /\ HistoryOff
    /\ w_pc = [w \in Callers |-> "processing"]
    /\ w_current_progress = [w \in Callers |-> {}]
    /\ w_progress_file \in {ProgressDoc({}), ProgressDoc({0})}
    /\ CasesOff

\* The calls of process_sample for the item raise: the except branch prints
\* the error and the worker returns 0 without touching the file.
WorkerFails(w) ==
    /\ w_pc[w] = "processing"
    /\ w_pc' = [w_pc EXCEPT ![w] = "returned_0"]
    /\ UNCHANGED <<w_current_progress, w_progress_file>>
    /\ UNCHANGED otherThanWorkers

\* The result is ready: open(progress_file, 'r+').
WorkerOpen(w) ==
    /\ w_pc[w] = "processing"
    /\ w_pc' = [w_pc EXCEPT ![w] = "opened"]
    /\ UNCHANGED <<w_current_progress, w_progress_file>>
    /\ UNCHANGED otherThanWorkers

\* json.load with {} on JSONDecodeError, current_progress[item_key] = result.
WorkerLoad(w) ==
    /\ w_pc[w] = "opened"
    /\ w_current_progress' = [w_current_progress EXCEPT
                                 ![w] = load_progress(w_progress_file) \cup {w}]
    /\ w_pc' = [w_pc EXCEPT ![w] = "loaded"]
    /\ UNCHANGED w_progress_file
    /\ UNCHANGED otherThanWorkers

\* f.seek(0); f.truncate()
WorkerTruncate(w) ==
    /\ w_pc[w] = "loaded"
    /\ w_progress_file' = TornProgress
    /\ w_pc' = [w_pc EXCEPT ![w] = "truncated"]
    /\ UNCHANGED w_current_progress
    /\ UNCHANGED otherThanWorkers

\* json.dump(current_progress, f, ...) from offset 0 of this worker's file
\* object, the end of the with block, return 1.
WorkerDump(w) ==
    /\ w_pc[w] = "truncated"
    /\ w_progress_file' = overwrite(w_progress_file, w_current_progress[w])
    /\ w_pc' = [w_pc EXCEPT ![w] = "returned_1"]
    /\ UNCHANGED w_current_progress
    /\ UNCHANGED otherThanWorkers

WorkersNext ==
    \E w \in Callers :
        \/ WorkerFails(w)
        \/ WorkerOpen(w)
        \/ WorkerLoad(w)
        \/ WorkerTruncate(w)
        \/ WorkerDump(w)

SpecWorkers == WorkersInit /\ [][WorkersNext]_vars

\* ============================== Part 11: radiopedia cases and their IDs
CasesInit ==
    /\ PoolOff
    /\ OracleOff
    /\ SearchOff
    /\ AppendOff
    /\ RecoveryOff
    /\ ExtractOff
    /\ MarkOff
    /\ HistoryOff
    /\ WorkersOff
    /\ c_pc = "loading"
    /\ c_run = 1
    /\ c_files \in [Modalities -> -1..MaxCases]
    /\ c_limit \in 0..MaxCases
    /\ c_next = 1
    /\ c_cases = <<>>
    /\ c_processed_ids = {}
    /\ c_finished = {}
    /\ c_remaining = <<>>

\* One pass of 'for mod in available_modalities': the cases of the modality
\* are added to all_cases; FileNotFoundError skips the modality.
LoadModality ==
    /\ c_pc = "loading"
    /\ c_next <= Len(available_modalities)
    /\ LET mod == available_modalities[c_next]
       IN c_cases' = IF c_files[mod] = -1
                     THEN c_cases
                     ELSE c_cases \o load_modality_cases(mod, c_files[mod], c_limit)
    /\ c_next' = c_next + 1
    /\ UNCHANGED <<c_pc, c_run, c_files, c_limit, c_processed_ids, c_finished, c_remaining>>
    /\ UNCHANGED otherThanCases

\* All modalities are loaded: without cases the run returns; the cases
\* whose str(process_id) is not in processed_ids are kept; with none left
\* the run returns.
FilterCases ==
    /\ c_pc = "loading"
    /\ c_next > Len(available_modalities)
    /\ LET remaining_cases == SelectSeq(c_cases,
                                  LAMBDA case : case.process_id \notin c_processed_ids)
       IN /\ c_remaining' = remaining_cases
          /\ c_pc' = IF remaining_cases = <<>> THEN "done" ELSE "pool"
    /\ UNCHANGED <<c_run, c_files, c_limit, c_next, c_cases, c_processed_ids, c_finished>>
    /\ UNCHANGED otherThanCases

\* The result of a remaining case is appended and the case is marked with
\* str(case.get("process_id")).
CaseMarked(k) ==
    /\ c_pc = "pool"
    /\ k \in DOMAIN c_remaining
    /\ c_remaining[k] \notin c_finished
    /\ Cardinality(c_finished) < MaxMarked
    /\ c_finished' = c_finished \cup {c_remaining[k]}
    /\ c_processed_ids' = c_processed_ids \cup {c_remaining[k].process_id}
    /\ UNCHANGED <<c_pc, c_run, c_files, c_limit, c_next, c_cases, c_remaining>>
    /\ UNCHANGED otherThanCases

\* The run stops and the operator resumes it on the same result file: the
\* tracker of the new run loads the processed_ids of the old one.
CasesResume ==
    /\ c_pc = "pool"
    /\ c_run < MaxRuns
    /\ c_run' = c_run + 1
    /\ c_pc' = "loading"
    /\ c_next' = 1
    /\ c_cases' = <<>>
    /\ c_remaining' = <<>>
    /\ UNCHANGED <<c_files, c_limit, c_processed_ids, c_finished>>
    /\ UNCHANGED otherThanCases

CasesNext ==
    \/ LoadModality
    \/ FilterCases
    \/ \E k \in 1..(Len(available_modalities) * MaxCases) : CaseMarked(k)
    \/ CasesResume

SpecCases == CasesInit /\ [][CasesNext]_vars

\* ============================================================ properties
\* Number of records the store holds for item i.
RecordCount(i) ==
    Cardinality({k \in DOMAIN get_existing_results(results_file) :
                    get_existing_results(results_file)[k].id = i})

DurableProcessed == load_progress(progress_file)

\* C1: every item ID in the durable processed_ids has a result record in the
\* Result Store, in every reachable state of a pool run, crashes included.
C1_MarkedImpliesRecorded ==
    \A i \in DurableProcessed : RecordCount(i) >= 1

\* C2: when a resumed run over the same input set has finished, the final
\* store holds exactly one record per completed item: none twice, none missing.
C2_ResumeIdempotence ==
    pc = "done" =>
        \A i \in Items : /\ RecordCount(i) <= 1
                         /\ i \in DurableProcessed => RecordCount(i) = 1

\* C4: a ProgressTracker constructed after the process was killed inside
\* mark_processed / _save_progress holds exactly the processed_ids of the last
\* committed progress file; the leftover temp file is not read.
C4_CrashSafeProgress ==
    (pc = "constructed" /\ crashed_in = "in_save") => processed_ids = committed

C4_Witness ==
    /\ pc = "constructed"
    /\ crashed_in = "in_save"
    /\ temp_file.kind = "torn"
    /\ committed # {}
    /\ processed_ids = committed

\* A step in which append_result is called and no file operation fails.
AppendStep ==
    /\ pc = "pool" /\ pc' = "pool"
    /\ \/ loop_pc = "idle" /\ loop_pc' = "saved"
       \/ loop_pc = "marked" /\ loop_pc' = "idle"
    /\ io_faults' = io_faults

AppendedItem == IF loop_pc = "marked" THEN loop_item ELSE loop_item'

C6_WriteFailureSurfaced ==
    [][\A i \in Items :
        (i \in unsaved /\ i \notin processed_ids) => i \notin processed_ids']_vars

WorkerFaults == {"initial_call", "strategy", "synthesis", "final_call"}

C8_PoolConverges ==
    /\ \A i \in Items : \A r \in 1..MaxRuns :
          (run = r /\ future[i].state = "running") ~>
              (run = r /\ future[i].state = "consumed" /\ RecordCount(i) = 1
                 /\ i \in DurableProcessed)
    /\ [](\A i \in Items :
            (future[i].state = "consumed" /\ future[i].result.status = "raised") =>
                \E k \in DOMAIN get_existing_results(results_file) :
                    get_existing_results(results_file)[k] = ErrorInFuture(i, future[i].fault))
    /\ [][\A i \in Items :
            (future[i].state = "consumed" /\ run' = run) => future'[i].state = "consumed"]_vars

C8_Witness ==
    \E i, j \in Items :
        /\ i # j
        /\ pc = "done"
        /\ future[i].state = "consumed" /\ future[i].result.status = "raised"
        /\ future[j].state = "consumed" /\ future[j].result.status = "success"
        /\ RecordCount(i) = 1 /\ RecordCount(j) = 1
        /\ DurableProcessed = Items

\* C9: check_answer_accuracy returns correct if and only if the reply,
\* compared case-insensitively, contains "true" and does not contain "false".
C9_TrueAndNotFalse ==
    o_pc = "returned" =>
        (is_correct <=>
            /\ \E k \in DOMAIN verification : verification[k] \in {"True", "true"}
            /\ ~\E k \in DOMAIN verification : verification[k] \in {"False", "false"})

\* The oracle has answered every verification so far with "incorrect".
OracleAlwaysIncorrect == s_cfg.ground_truth /\ oracle_said = {"incorrect"}

\* All strategy prompts and the guided prompt are in the prompts file and no
\* inference call of the search has failed.
SoundSetup ==
    /\ s_cfg.empty_prompts = {}
    /\ s_cfg.guided_prompt
    /\ refined \subseteq {"changed", "same"}

\* C3: with max_search_attempts = 2, max_search_depth = 2 and an oracle that
\* always answers incorrect, one run of the search (all prompts present, no
\* call failing) ends after the initial call, exactly 4 refinement calls and,
\* when efficient_search is enabled, exactly one guided call.
C3_ExactlyFourRefinements ==
    (/\ s_cfg.path = "engine"
     /\ s_cfg.max_search_attempts = 2
     /\ s_cfg.max_search_depth = 2
     /\ SoundSetup
     /\ s_pc \in {"synthesis", "final_call", "returned"}
     /\ calls.initial = 1
     /\ OracleAlwaysIncorrect) =>
        /\ calls.refine = 4
        /\ calls.guided = IF s_cfg.efficient_search THEN 1 ELSE 0

\* C10 (as claimed): on every code path each refinement step picks its
\* strategy by round-robin, index = attempt count modulo the list length.
C10_RoundRobinEverywhere ==
    last_pick.picked => last_pick.index = last_pick.attempt % Len(Strategies)

\* C10 (amended): in ReasoningStrategies.apply_all_strategies each refinement
\* step picks Strategies[search_attempts mod 4], the same for every depth of
\* one attempt, and every recorded attempt names that strategy.
C10_EngineRoundRobin ==
    s_cfg.path = "engine" =>
        /\ last_pick.picked => last_pick.index = last_pick.attempt % Len(Strategies)
        /\ \A k \in DOMAIN strategies_used :
              strategies_used[k].kind = "attempt" =>
                  strategies_used[k].strategy =
                      Strategies[((strategies_used[k].attempt - 1) % Len(Strategies)) + 1]

C10_Witness ==
    /\ s_cfg.path = "engine"
    /\ Len(strategies_used) >= 3
    /\ strategies_used[1].strategy = "Backtracking"
    /\ strategies_used[2].strategy = "Backtracking"
    /\ strategies_used[3].strategy = "Exploring New Paths"
    /\ last_pick = [attempt |-> 1, index |-> 1, picked |-> TRUE]

C12_LoadNeverFailsAndStartsEmpty ==
    pc = "tracker_loaded" =>
        IF progress_file.kind = "ok"
        THEN \A i \in Items : is_processed(i) <=> i \in progress_file.ids
        ELSE processed_ids = {}

\* C13: in every state of any sequence of runs and re-runs the Result Store
\* holds at most one record per item id.
C13_AtMostOneRecordPerItem ==
    \A i \in Items : RecordCount(i) <= 1

\* Number of records of caller c in the store.
StoreCount(c) ==
    Cardinality({k \in DOMAIN results_file.recs : results_file.recs[k] = SuccessRecord(c)})

\* C14: at most one caller of append_result is between its flock and the
\* close of its file, and once all concurrent calls have returned without a
\* write failure the store is a valid list that holds the records it had
\* before, in their order, and the record of every caller exactly once.
C14_LockedReadModifyWrite ==
    /\ Cardinality({c \in Callers : a_pc[c] \in {"locked", "loaded", "truncated"}}) <= 1
    /\ (/\ pc = "appending"
        /\ \A c \in Callers : a_pc[c] = "returned"
        /\ io_faults = 0) =>
            /\ results_file.kind = "list"
            /\ Len(results_file.recs) = Len(a_start) + NumCallers
            /\ SubSeq(results_file.recs, 1, Len(a_start)) = a_start
            /\ \A c \in Callers : StoreCount(c) = 1

\* All callers ran append_result on a store that held one record and
\* returned; caller 2 got the lock before caller 1.
C14_Witness ==
    /\ pc = "appending"
    /\ \A c \in Callers : a_pc[c] = "returned"
    /\ io_faults = 0
    /\ a_start = <<SuccessRecord(0)>>
    /\ results_file.kind = "list"
    /\ Len(results_file.recs) = 1 + NumCallers
    /\ results_file.recs[2] = SuccessRecord(2)

\* The operator typed y or Y, with nothing but blanks around it.
AnsweredYes ==
    /\ r_answer.asked
    /\ ~r_answer.eof
    /\ SelectSeq(r_answer.text, LAMBDA a : a # " ") \in {<<"y">>, <<"Y">>}

\* C15: the driver takes the result file of an earlier run only when the
\* operator answered yes, and then that of the run updated last; after any
\* other answer, or none, it goes on with its new result file.
C15_ResumeOnlyOnYes ==
    /\ r_results_file # 0 =>
          /\ AnsweredYes
          /\ \A j \in DOMAIN r_files : r_files[j] <= r_files[r_results_file]
    /\ (r_answer.asked /\ ~AnsweredYes) =>
          /\ r_pc = "tracking"
          /\ r_results_file = 0

\* "**Final Conclusion** The sign reads STOP"
SignText == <<"**", "Final Conclusion", "**", " ", "The sign reads STOP">>

C17_CorrectEndsSearch ==
    [][("correct" \in oracle_said) =>
          /\ found_correct_answer
          /\ found_correct_answer'
          /\ calls'.refine = calls.refine
          /\ calls'.guided = calls.guided]_vars

C17_Witness ==
    /\ s_cfg.path = "engine"
    /\ s_cfg.efficient_search
    /\ s_pc = "returned"
    /\ oracle_said = {"incorrect", "correct"}
    /\ found_correct_answer
    /\ calls.refine = 1
    /\ calls.guided = 0
    /\ search_attempts < s_cfg.max_search_attempts
    /\ Len(strategies_used) < max_strategies

\* C18: every refinement call of apply_all_strategies, made with a reference
\* answer at hand, adds one entry to strategies_used and one to
\* reasoning_trace and is followed by one verification within the same pass
\* of the loop, also when the refined result equals the previous one.
C18_EveryRefinementRecordedAndVerified ==
    [][(/\ s_cfg.path = "engine"
        /\ s_cfg.ground_truth
        /\ calls'.refine = calls.refine + 1) =>
          /\ Len(strategies_used') = Len(strategies_used) + 1
          /\ Len(reasoning_trace') = Len(reasoning_trace) + 1
          /\ calls'.verify = calls.verify + 1]_vars

\* C19: when the inference call of a refinement has raised, the item ends
\* with status error.
C19_RefinementErrorSurfaces ==
    (/\ s_cfg.path = "engine"
     /\ "call_fails" \in refined
     /\ s_pc = "returned") => s_status = "error"

\* C20: a verification whose inference call raises ends the search of the
\* item with a failure; the search never goes on as after an incorrect verdict.
C20_OracleErrorNeverAVerdict ==
    [][("raised" \notin oracle_said /\ "raised" \in oracle_said') =>
          /\ s_pc' = "returned"
          /\ s_status' \in {"error", "failed"}]_vars

\* C21: after any number of calls of check_answer_accuracy on the same two
\* transcripts, calls that raise included, the query transcript and the
\* response transcript have the same length.
C21_TranscriptsInLockstep ==
    o_pc # "off" => o_query_history = o_response_history

\* C22: whatever get_existing_results returns while calls of append_result
\* run is a collection the store held before or after one of the appends: it
\* starts with the records the store had before the calls.
C22_ReaderSeesWholeStore ==
    (pc = "appending" /\ a_read.called) =>
        /\ Len(a_read.recs) >= Len(a_start)
        /\ SubSeq(a_read.recs, 1, Len(a_start)) = a_start

\* C23: once the concurrent calls of mark_processed have all returned, the
\* progress file is a valid document that holds the ID of every caller.
C23_ConcurrentMarksAllDurable ==
    (pc = "marking" /\ \A c \in Callers : m_pc[c] = "returned") =>
        /\ progress_file.kind = "ok"
        /\ Callers \subseteq progress_file.ids

\* C24: when the pool run is stopped by an interrupt, no item stands between
\* its append_result and its mark_processed, and no append_result was cut off
\* after it had truncated the store.
C24_InterruptKeepsWriteThenMark ==
    pc = "crashed" =>
        /\ loop_pc # "saved"
        /\ crashed_in # "in_append"

\* C25: the step that leaves the filter submits exactly the items whose ID is
\* not in the loaded processed_ids and ends the run when there is none; no
\* other step of the run starts a worker for an item, so no item is run twice
\* and a processed item is never run again.
C25_DispatchExactlyTheUnprocessed ==
    [][/\ (pc = "constructed" /\ pc' \in {"pool", "done"}) =>
            /\ \A i \in Items :
                  future'[i].state = IF is_processed(i) THEN "none" ELSE "running"
            /\ pc' = "done" <=> \A i \in Items : is_processed(i)
       /\ pc # "constructed" =>
            \A i \in Items : future'[i].state = "running" => future[i].state = "running"]_vars

\* A resumed run that found one item processed and submitted only the other.
C25_Witness ==
    /\ run = 2
    /\ pc = "pool"
    /\ \E i \in Items : is_processed(i) /\ future[i].state = "none"
    /\ \E i \in Items : ~is_processed(i) /\ future[i].state = "running"

NoDuplicates(history) ==
    \A j, k \in DOMAIN history : j # k => history[j] # history[k]

\* C26: in the result of a radiology case no query and no reply stands twice
\* in Query_History or Response_History.
C26_HistoriesWithoutDuplicates ==
    h_pc = "returned" =>
        /\ NoDuplicates(h_query_history)
        /\ NoDuplicates(h_response_history)

\* C27: when the pool has drained, the progress file is a valid document
\* that holds the entry of every worker that returned 1.
C27_WorkersKeepEveryEntry ==
    (\A w \in Callers : w_pc[w] \in {"returned_0", "returned_1"}) =>
        /\ w_progress_file.kind = "ok"
        /\ {w \in Callers : w_pc[w] = "returned_1"} \subseteq w_progress_file.ids

\* C28: in a run over all modalities no two cases have the same process_id,
\* and every case that is not finished is among the remaining cases of a
\* resumed run.
C28_CaseIdsDistinct ==
    /\ \A j, k \in DOMAIN c_cases :
          j # k => c_cases[j].process_id # c_cases[k].process_id
    /\ c_pc = "pool" =>
          \A k \in DOMAIN c_cases :
              c_cases[k] \notin c_finished => \E j \in DOMAIN c_remaining : c_remaining[j] = c_cases[k]

Min(a, b) == IF a < b THEN a ELSE b

\* C29: without a ground truth apply_all_strategies makes no verification
\* call and no guided call and never sets found_correct_answer; its loop runs
\* until max_search_attempts is used up, and when every prompt is there and
\* every refinement changes the result it makes as many refinement calls as
\* max_strategies and max_search_attempts * max_search_depth allow.
C29_NoGroundTruthNoOracle ==
    (s_cfg.path = "engine" /\ ~s_cfg.ground_truth) =>
        /\ calls.verify = 0
        /\ calls.guided = 0
        /\ ~found_correct_answer
        /\ s_pc \in {"guided", "synthesis", "final_call"} =>
              /\ search_attempts = s_cfg.max_search_attempts
              /\ refined \subseteq {"changed"} =>
                    calls.refine = Min(max_strategies,
                                       s_cfg.max_search_attempts * s_cfg.max_search_depth)

C29_Witness ==
    /\ s_cfg.path = "engine"
    /\ ~s_cfg.ground_truth
    /\ s_cfg.efficient_search
    /\ s_cfg.guided_prompt
    /\ s_pc = "returned"
    /\ s_status = "success"
    /\ refined = {"changed"}
    /\ calls.refine >= 2
    /\ calls.verify = 0
    /\ calls.guided = 0
    /\ ~found_correct_answer

\* C30: whatever the oracle answers, apply_all_strategies never has more
\* than max_strategies entries of refinements in strategies_used and never
\* makes more than max_search_attempts * max_search_depth refinement calls;
\* once max_strategies entries are recorded it makes no further refinement
\* call; and the search of the item comes to its end.
C30_SearchBounded ==
    /\ [](s_cfg.path = "engine" =>
            /\ Cardinality({k \in DOMAIN strategies_used :
                               strategies_used[k].kind \in {"attempt", "failed"}})
                 <= max_strategies
            /\ calls.refine <= s_cfg.max_search_attempts * s_cfg.max_search_depth)
    /\ [][(s_cfg.path = "engine" /\ Len(strategies_used) >= max_strategies) =>
             calls'.refine = calls.refine]_vars
    /\ <>(s_pc = "returned")

\* A search that was stopped by max_strategies before its attempts and depths
\* were used up, with an oracle that said incorrect every time.
C30_Witness ==
    /\ s_cfg.path = "engine"
    /\ s_cfg.ground_truth
    /\ s_pc = "returned"
    /\ oracle_said = {"incorrect"}
    /\ Len(strategies_used) >= max_strategies
    /\ calls.refine = max_strategies
    /\ calls.refine < s_cfg.max_search_attempts * s_cfg.max_search_depth

====
